---- MODULE Spec2Model ----
(***************************************************************************)
(* Retry-and-partial-failure engine of cctv-weather.                       *)
(*                                                                         *)
(* Part 1: the error classifier (isTransientError, isPermanentError) and   *)
(* the retry engine (withRetry, withRetrySafe).  Error messages are        *)
(* sequences of one-character strings, so that toLowerCase() and           *)
(* String.prototype.includes() are computed as the code computes them.     *)
(* Specification: Spec.                                                    *)
(*                                                                         *)
(* Part 2: the two batchImages functions (camera-selector.ts and           *)
(* media-handler.ts), their loops taken one iteration at a time.           *)
(* Specifications: SpecBatch, FairSpecBatch.                               *)
(*                                                                         *)
(* Part 3: the orchestrator (run, determineExitCode), with the delivery    *)
(* stage (TelegramService.sendWeatherReport, sendError) and the fallback   *)
(* storage (saveFailedReport) it calls.  Specifications: SpecRun,         *)
(* FairSpecRun.                                                            *)
(*                                                                         *)
(* Fallback storage on its own, called several times in one process.       *)
(* Specification: SpecStore.                                               *)
(*                                                                         *)
(* Part 4: the capture loop of captureAndAnalyze with                      *)
(* captureSingleCameraWithTimeout and captureSingleCamera, one execution   *)
(* of captureSingleCamera per camera.  Specification: SpecCapture.         *)
(*                                                                         *)
(* Each specification runs one part; the variables of the other parts      *)
(* stay at their idle values.                                              *)
(***************************************************************************)
EXTENDS Integers, Sequences, FiniteSets, TLC

VARIABLES
    form,        \* entry point of the execution: "withRetry" or "withRetrySafe"
    config,      \* the caller's Partial<RetryConfig> (a record with some fields absent)
    pc,          \* position of the execution inside withRetry / withRetrySafe
    attempt,     \* withRetry: the for-loop variable (0-based)
    lastError,   \* withRetry: let lastError: Error | null
    caught,      \* the exception bound by `catch (error)`, and who threw it
    delayMs,     \* withRetry: const delayMs of the current iteration
    attempts,    \* withRetrySafe: let attempts = 0 (counted by its wrapper closure)
    inner,       \* how withRetry ended: pending, returned a value, raised an error
    safeResult,  \* the RetryResult returned by withRetrySafe
    outcome,     \* what the caller of the entry point sees: pending, returned, raised
    opLog,       \* history: the outcome of every call of the caller's operation
    slept,       \* history: every sleep(delayMs), with the iteration it happened
                 \* in and the number of operation calls made before it
    observed     \* history: every onRetry(attempt, lastError, delayMs) invocation,
                 \* whether it threw, and the number of operation calls made before it

VARIABLES
    impl,        \* which batchImages runs: "cameraSelector" or "mediaHandler"
    args,        \* its arguments: images, and maxPerBatch unless left undefined
    loopI,       \* batchImages: the for-loop variable i
    batches,     \* batchImages: const batches (and the array returned)
    bpc          \* position inside batchImages: entry, loop, returned, crashed

VARIABLES
    entry,          \* what is executed: "run" or a direct "determineExitCode"
    rpc,            \* position of the execution inside run
    status,         \* run: const status: ExecutionStatus
    analysis,       \* run: let analysis: string | null
    images,         \* run: let images: CapturedImage[]
    captureError,   \* run: let captureError: Error | null
    capturedImages, \* captureAndAnalyze: const capturedImages
    telegramError,  \* run: the telegramError bound by the catch of step 2
    exitCode,       \* run: const exitCode, then the code the process exited with
    configured,     \* whether TELEGRAM_BOT_TOKEN and TELEGRAM_CHAT_ID are set
    batchIndex,     \* sendWeatherReport: the for-loop variable
    work            \* history: every collaborator call made, and how it ended

VARIABLES
    disk,           \* data/failed_reports: the containers, by directory name
    clock,          \* what new Date() reads, in milliseconds
    reply           \* what the last call of a storage function returned

VARIABLES
    cpc,            \* position of captureAndAnalyze inside its capture loop
    currentPage,    \* captureAndAnalyze: let currentPage
    card,           \* captureAndAnalyze: the card the for loop is at, counted
                    \* over all pages
    capture,        \* per camera: the execution of captureSingleCamera (its
                    \* position, its loop variable attempt, its return value)
    abortSignal,    \* per camera: abortSignal.aborted
    timer,          \* per camera: the setTimeout of captureSingleCameraWithTimeout
    race,           \* per camera: the promise of Promise.race, and who settled it
    tried           \* history, per camera: every attempt made, how it ended
                    \* and the delay waited after it

retryVars ==
    << form, config, pc, attempt, lastError, caught, delayMs, attempts,
       inner, safeResult, outcome, opLog, slept, observed >>

batchVars == << impl, args, loopI, batches, bpc >>

runVars ==
    << entry, rpc, status, analysis, images, captureError, capturedImages,
       telegramError, exitCode, configured, batchIndex, work >>

storeVars == << disk, clock, reply >>

captureVars == << cpc, currentPage, card, capture, abortSignal, timer, race, tried >>

vars == << retryVars, batchVars, runVars, storeVars, captureVars >>

----------------------------------------------------------------------------
(* Bounds of the model *)

MaxRetriesBound == 3

----------------------------------------------------------------------------
(* Strings as character sequences *)

LowerOf ==
    [ A |-> "a", B |-> "b", C |-> "c", D |-> "d", E |-> "e", F |-> "f", G |-> "g", H |-> "h", I |-> "i", J |-> "j", K |-> "k", L |-> "l", M |-> "m", N |-> "n", O |-> "o", P |-> "p", Q |-> "q", R |-> "r", S |-> "s", T |-> "t", U |-> "u", V |-> "v", W |-> "w", X |-> "x", Y |-> "y", Z |-> "z" ]

toLowerCase(s) ==
    [ i \in 1..Len(s) |-> IF s[i] \in DOMAIN LowerOf THEN LowerOf[s[i]] ELSE s[i] ]

includes(s, pattern) ==
    \E i \in 0..(Len(s) - Len(pattern)) :
        SubSeq(s, i + 1, i + Len(pattern)) = pattern

\* Error.prototype.toString(): "name: message" (the name alone when the
\* message is empty, the message alone when the name is empty).
toString(error) ==
    IF error.message = << >> THEN error.name
    ELSE IF error.name = << >> THEN error.message
    ELSE error.name \o <<":", " ">> \o error.message

----------------------------------------------------------------------------
(* The errors the operation and the observer may throw *)

Errors ==
    [ e503 |->
          [ name |-> <<"E","r","r","o","r">>,
            message |-> <<"E","r","r","o","r",":"," ","5","0","3"," ","S","e","r","v","i","c","e"," ","U","n","a","v","a","i","l","a","b","l","e">> ],
      e401 |->
          [ name |-> <<"E","r","r","o","r">>,
            message |-> <<"4","0","1"," ","U","n","a","u","t","h","o","r","i","z","e","d",":"," ","i","n","v","a","l","i","d"," ","t","o","k","e","n">> ],
      eBoth |->
          [ name |-> <<"E","r","r","o","r">>,
            message |-> <<"R","e","q","u","e","s","t"," ","t","i","m","e","o","u","t"," ","(","4","0","1",")">> ],
      eNone |->
          [ name |-> <<"E","r","r","o","r">>,
            message |-> <<"S","o","m","e","t","h","i","n","g"," ","b","r","o","k","e">> ],
      eNamed |->
          [ name |-> <<"T","i","m","e","o","u","t","E","r","r","o","r">>,
            message |-> <<"N","a","v","i","g","a","t","i","o","n"," ","f","a","i","l","e","d">> ],
      eAcces |->
          [ name |-> <<"E","r","r","o","r">>,
            message |-> <<"E","A","C","C","E","S",":"," ","p","e","r","m","i","s","s","i","o","n"," ","d","e","n","i","e","d">> ],
      eTimedOut |->
          [ name |-> <<"E","r","r","o","r">>,
            message |-> <<"E","T","I","M","E","D","O","U","T",":"," ","w","r","i","t","e">> ],
      eGeneric |->
          [ name |-> <<"E","r","r","o","r">>,
            message |-> <<"O","p","e","r","a","t","i","o","n"," ","f","a","i","l","e","d">> ] ]

\* const networkErrors (retry.service.ts:137), httpErrors (:150),
\* timeoutErrors (:159), rateLimitErrors (:166), permanentErrors (:195)
networkErrors ==
    { <<"e","c","o","n","n","r","e","s","e","t">>
    , <<"e","c","o","n","n","r","e","f","u","s","e","d">>
    , <<"e","t","i","m","e","d","o","u","t">>
    , <<"e","n","o","t","f","o","u","n","d">>
    , <<"e","n","e","t","u","n","r","e","a","c","h">>
    , <<"e","h","o","s","t","u","n","r","e","a","c","h">>
    , <<"s","o","c","k","e","t"," ","h","a","n","g"," ","u","p">>
    , <<"n","e","t","w","o","r","k"," ","e","r","r","o","r">>
    , <<"f","e","t","c","h"," ","f","a","i","l","e","d">>
    }
httpErrors ==
    { <<"4","2","9">>
    , <<"5","0","0">>
    , <<"5","0","2">>
    , <<"5","0","3">>
    , <<"5","0","4">>
    }
timeoutErrors ==
    { <<"t","i","m","e","o","u","t">>
    , <<"t","i","m","e","d"," ","o","u","t">>
    , <<"d","e","a","d","l","i","n","e"," ","e","x","c","e","e","d","e","d">>
    }
rateLimitErrors ==
    { <<"r","a","t","e"," ","l","i","m","i","t">>
    , <<"t","o","o"," ","m","a","n","y"," ","r","e","q","u","e","s","t","s">>
    , <<"q","u","o","t","a"," ","e","x","c","e","e","d","e","d">>
    }
permanentErrors ==
    { <<"u","n","a","u","t","h","o","r","i","z","e","d">>
    , <<"f","o","r","b","i","d","d","e","n">>
    , <<"n","o","t"," ","f","o","u","n","d">>
    , <<"b","a","d"," ","r","e","q","u","e","s","t">>
    , <<"4","0","0">>
    , <<"4","0","1">>
    , <<"4","0","3">>
    , <<"4","0","4">>
    , <<"i","n","v","a","l","i","d">>
    , <<"a","u","t","h","e","n","t","i","c","a","t","i","o","n"," ","f","a","i","l","e","d">>
    , <<"t","o","k","e","n">>
    }

isTransientError(error) ==
    LET errorMessage == toLowerCase(error.message)
        errorString  == toLowerCase(toString(error))
        isNetworkError ==
            \E pattern \in networkErrors :
                includes(errorMessage, pattern) \/ includes(errorString, pattern)
        isHttpError ==
            \E pattern \in httpErrors :
                includes(errorMessage, pattern) \/ includes(errorString, pattern)
        isTimeoutError ==
            \E pattern \in timeoutErrors :
                includes(errorMessage, pattern) \/ includes(errorString, pattern)
        isRateLimitError ==
            \E pattern \in rateLimitErrors :
                includes(errorMessage, pattern) \/ includes(errorString, pattern)
    IN  isNetworkError \/ isHttpError \/ isTimeoutError \/ isRateLimitError

isPermanentError(error) ==
    LET errorMessage == toLowerCase(error.message)
    IN  \E pattern \in permanentErrors : includes(errorMessage, pattern)

\* The two classifiers, tabulated once over the errors of the model.
Transient == { e \in DOMAIN Errors : isTransientError(Errors[e]) }
Permanent == { e \in DOMAIN Errors : isPermanentError(Errors[e]) }

----------------------------------------------------------------------------
(* Configuration: defaultRetryConfig and the caller's partial config *)

defaultRetryConfig ==
    [ maxRetries |-> 3, initialDelayMs |-> 120000, backoffMultiplier |-> 2 ]

\* The configs callers pass: each field present or absent; onRetry, when
\* present, is the observer (every call site passes logRetryAttempt).
FullConfigs ==
    [ maxRetries : 0..MaxRetriesBound,
      initialDelayMs : {2000},
      backoffMultiplier : {1, 3},
      onRetry : {"logRetryAttempt"} ]

Restrict(f, D) == [ k \in D |-> f[k] ]

Configs ==
    { Restrict(f, D) : f \in FullConfigs, D \in SUBSET (DOMAIN defaultRetryConfig \cup {"onRetry"}) }

\* Mutant: the spread written the other way round, the defaults overriding
\* what the caller passed.
finalConfig_defaultsWin == defaultRetryConfig @@ config

\* const finalConfig = { ...defaultRetryConfig, ...config }
finalConfig == config @@ defaultRetryConfig

\* const shouldRetry = finalConfig.shouldRetry || isTransientError; no call
\* site of the repository passes shouldRetry.
shouldRetry(error) == error \in Transient

RECURSIVE Pow(_, _)
Pow(base, exp) == IF exp = 0 THEN 1 ELSE base * Pow(base, exp - 1)

\* for (let attempt = 0; attempt <= finalConfig.maxRetries; attempt++)
LoopCond(a) == a <= finalConfig.maxRetries

NextAttempt(a) == a + 1

\* initialDelayMs * Math.pow(backoffMultiplier, attempt - 1)
DelayOf(a) ==
    finalConfig.initialDelayMs * Pow(finalConfig.backoffMultiplier, a - 1)

\* if (attempt === finalConfig.maxRetries)
IsLastAttempt(a) == a = finalConfig.maxRetries

----------------------------------------------------------------------------
(* What the collaborators can do *)

Values == {"v1", "v2"}

OpErrors == {"e503", "e401", "eBoth", "eNone", "eNamed"}

\* logRetryAttempt appends to data/logs/retry.log with fs.appendFileSync,
\* which throws when the file system fails.
ObserverErrors == {"eAcces", "eTimedOut"}

None == "none"

Ok(v)   == [ ok |-> TRUE,  value |-> v,    error |-> None ]
Fail(e) == [ ok |-> FALSE, value |-> None, error |-> e ]

OpOutcomes == { Ok(v) : v \in Values } \cup { Fail(e) : e \in OpErrors }

ObserverOutcomes == { Ok(None) } \cup { Fail(e) : e \in ObserverErrors }

Pending     == [ kind |-> "pending",  value |-> None, error |-> None ]
Returned(v) == [ kind |-> "returned", value |-> v,    error |-> None ]
Raised(e)   == [ kind |-> "raised",   value |-> None, error |-> e ]

NoResult == [ success |-> FALSE, result |-> None, error |-> None, attempts |-> -1 ]

----------------------------------------------------------------------------
(* withRetry and withRetrySafe *)

\* Where control goes when withRetry returns or throws: to its caller, or
\* into the try/catch of withRetrySafe.
AfterWithRetry == IF form = "withRetrySafe" THEN "wrap" ELSE "done"

\* What the caller has seen once withRetry ended with `kind`: under
\* withRetrySafe nothing yet, the try/catch of withRetrySafe comes first.
SeenAfter(kind) == IF form = "withRetrySafe" THEN "pending" ELSE kind

\* Line 71: throw lastError || new Error('Operation failed')
ExitThrow(e) == IF e = None THEN "eGeneric" ELSE e

\* Top of a loop iteration: the loop test, then `if (attempt > 0)`.
IterationStart(a) ==
    IF LoopCond(a) THEN (IF a > 0 THEN "notify" ELSE "call") ELSE "exit"

\* batchImages is not running.
BatchIdle ==
    /\ impl = None
    /\ args = [ images |-> << >> ]
    /\ loopI = 0
    /\ batches = << >>
    /\ bpc = "idle"

\* The orchestrator is not running.
RunIdle ==
    /\ entry = None
    /\ rpc = "idle"
    /\ status = [ captureSuccess |-> FALSE, analysisSuccess |-> FALSE,
                  telegramSuccess |-> FALSE ]
    /\ analysis = None
    /\ images = << >>
    /\ captureError = None
    /\ capturedImages = << >>
    /\ telegramError = None
    /\ exitCode = -1
    /\ configured = TRUE
    /\ batchIndex = 0
    /\ work = << >>

\* Nothing is stored and nothing is being stored.
StoreIdle ==
    /\ disk = << >>
    /\ clock = 0
    /\ reply = [ call |-> None, value |-> << >> ]

\* captureAndAnalyze is not running.
CaptureIdle ==
    /\ cpc = "idle"
    /\ currentPage = 1
    /\ card = 1
    /\ capture = << >>
    /\ abortSignal = << >>
    /\ timer = << >>
    /\ race = << >>
    /\ tried = << >>

Init ==
    /\ CaptureIdle
    /\ BatchIdle
    /\ RunIdle
    /\ StoreIdle
    /\ form \in {"withRetry", "withRetrySafe"}
    /\ config \in Configs
    /\ attempt = 0
    /\ lastError = None
    /\ caught = [ error |-> None, by |-> None ]
    /\ delayMs = 0
    /\ attempts = 0
    /\ inner = Pending
    /\ safeResult = NoResult
    /\ outcome = "pending"
    /\ opLog = << >>
    /\ slept = << >>
    /\ observed = << >>
    /\ pc = IterationStart(0)

\* Lines 30-37: compute delayMs, then call onRetry (inside the try block) or
\* print to the console.
Notify ==
    /\ pc = "notify"
    /\ delayMs' = DelayOf(attempt)
    /\ IF "onRetry" \in DOMAIN finalConfig
       THEN \E o \in ObserverOutcomes :
               /\ observed' = Append(observed,
                      [ attempt |-> attempt, error |-> lastError,
                        delayMs |-> DelayOf(attempt), threw |-> ~o.ok,
                        calls |-> Len(opLog) ])
               /\ IF o.ok
                  THEN pc' = "sleep" /\ UNCHANGED caught
                  ELSE pc' = "catch" /\ caught' = [ error |-> o.error, by |-> "onRetry" ]
       ELSE pc' = "sleep" /\ UNCHANGED << observed, caught >>
    /\ UNCHANGED << form, config, attempt, lastError, attempts, inner,
                    safeResult, outcome, opLog, slept >>
    /\ UNCHANGED << batchVars, runVars, storeVars, captureVars >>

\* Line 39: await sleep(delayMs)
Sleep ==
    /\ pc = "sleep"
    /\ slept' = Append(slept,
           [ attempt |-> attempt, delayMs |-> delayMs, after |-> Len(opLog) ])
    /\ pc' = "call"
    /\ UNCHANGED << form, config, attempt, lastError, caught, delayMs,
                    attempts, inner, safeResult, outcome, opLog, observed >>
    /\ UNCHANGED << batchVars, runVars, storeVars, captureVars >>

\* Lines 42-48: await operation(); return result.  Under withRetrySafe the
\* operation is the wrapper closure of lines 85-88, which counts attempts.
Call ==
    /\ pc = "call"
    /\ attempts' = IF form = "withRetrySafe" THEN attempts + 1 ELSE attempts
    /\ \E o \in OpOutcomes :
          /\ opLog' = Append(opLog, o)
          /\ IF o.ok
             THEN /\ inner' = Returned(o.value)
                  /\ outcome' = SeenAfter("returned")
                  /\ pc' = AfterWithRetry
                  /\ UNCHANGED caught
             ELSE /\ caught' = [ error |-> o.error, by |-> "operation" ]
                  /\ pc' = "catch"
                  /\ UNCHANGED << inner, outcome >>
    /\ UNCHANGED << form, config, attempt, lastError, delayMs, safeResult,
                    slept, observed >>
    /\ UNCHANGED << batchVars, runVars, storeVars, captureVars >>

\* Mutant: the catch block rejects the caller's promise on a non-retryable
\* error but does not leave the loop, so the retries go on in the background.
Catch_backgroundRetry ==
    /\ pc = "catch"
    /\ lastError' = caught.error
    /\ IF IsLastAttempt(attempt)
       THEN /\ inner' = Raised(caught.error)
            /\ outcome' = SeenAfter("raised")
            /\ pc' = AfterWithRetry
            /\ UNCHANGED attempt
       ELSE /\ attempt' = NextAttempt(attempt)
            /\ pc' = "notify"
            /\ IF ~shouldRetry(caught.error)
               THEN /\ inner' = Raised(caught.error)
                    /\ outcome' = SeenAfter("raised")
               ELSE UNCHANGED << inner, outcome >>
    /\ UNCHANGED << form, config, caught, delayMs, attempts, safeResult,
                    opLog, slept, observed >>
    /\ UNCHANGED << batchVars, runVars, storeVars, captureVars >>

\* Lines 50-67, and the loop header and line 71 when the catch block falls
\* through to the next iteration.
Catch ==
    /\ pc = "catch"
    /\ lastError' = caught.error
    /\ IF ~shouldRetry(caught.error) \/ IsLastAttempt(attempt)
       THEN /\ inner' = Raised(caught.error)
            /\ outcome' = SeenAfter("raised")
            /\ pc' = AfterWithRetry
            /\ UNCHANGED attempt
       ELSE /\ attempt' = NextAttempt(attempt)
            /\ IF IterationStart(NextAttempt(attempt)) = "exit"
               THEN /\ inner' = Raised(ExitThrow(caught.error))
                    /\ outcome' = SeenAfter("raised")
                    /\ pc' = AfterWithRetry
               ELSE /\ pc' = IterationStart(NextAttempt(attempt))
                    /\ UNCHANGED << inner, outcome >>
    /\ UNCHANGED << form, config, caught, delayMs, attempts, safeResult,
                    opLog, slept, observed >>
    /\ UNCHANGED << batchVars, runVars, storeVars, captureVars >>

\* Mutant: the catch block of withRetrySafe rethrows what withRetry threw.
SafeReturn_rethrow ==
    /\ pc = "wrap"
    /\ IF inner.kind = "returned"
       THEN /\ safeResult' = [ success |-> TRUE, result |-> inner.value,
                               error |-> None, attempts |-> attempts ]
            /\ outcome' = "returned"
       ELSE /\ outcome' = "raised"
            /\ UNCHANGED safeResult
    /\ pc' = "done"
    /\ UNCHANGED << form, config, attempt, lastError, caught, delayMs,
                    attempts, inner, opLog, slept, observed >>
    /\ UNCHANGED << batchVars, runVars, storeVars, captureVars >>

\* withRetrySafe lines 92-103: the try block returns { success: true, ... }
\* when withRetry returned, the catch block { success: false, ... } when it
\* threw; either way withRetrySafe returns.
SafeReturn ==
    /\ pc = "wrap"
    /\ safeResult' =
           IF inner.kind = "returned"
           THEN [ success |-> TRUE, result |-> inner.value, error |-> None,
                  attempts |-> attempts ]
           ELSE [ success |-> FALSE, result |-> None, error |-> inner.error,
                  attempts |-> attempts ]
    /\ outcome' = "returned"
    /\ pc' = "done"
    /\ UNCHANGED << form, config, attempt, lastError, caught, delayMs,
                    attempts, inner, opLog, slept, observed >>
    /\ UNCHANGED << batchVars, runVars, storeVars, captureVars >>

\* The retry engine is not running.
RetryIdle ==
    /\ form = None
    /\ config = [ onRetry |-> "logRetryAttempt" ]
    /\ attempt = 0
    /\ lastError = None
    /\ caught = [ error |-> None, by |-> None ]
    /\ delayMs = 0
    /\ attempts = 0
    /\ inner = Pending
    /\ safeResult = NoResult
    /\ outcome = "pending"
    /\ opLog = << >>
    /\ slept = << >>
    /\ observed = << >>
    /\ pc = "idle"

Next == Notify \/ Sleep \/ Call \/ Catch \/ SafeReturn

Spec == Init /\ [][Next]_vars

----------------------------------------------------------------------------
(* Vocabulary of the properties *)

\* The policy the caller asked for: its own field when it passed one, the
\* documented default otherwise.
PolicyMaxRetries ==
    IF "maxRetries" \in DOMAIN config THEN config.maxRetries
    ELSE defaultRetryConfig.maxRetries

PolicyInitialDelay ==
    IF "initialDelayMs" \in DOMAIN config THEN config.initialDelayMs
    ELSE defaultRetryConfig.initialDelayMs

PolicyMultiplier ==
    IF "backoffMultiplier" \in DOMAIN config THEN config.backoffMultiplier
    ELSE defaultRetryConfig.backoffMultiplier

Calls == Len(opLog)

LastOp == opLog[Len(opLog)]

\* Failed operation calls, by how the two classifiers see the error.
FailedWith(i, class) == ~opLog[i].ok /\ opLog[i].error \in class

\* After the operation call numbered i the engine neither waits nor calls
\* the operation again.
StopsAt(i) == i = Len(opLog) /\ pc \notin {"notify", "sleep", "call"}

----------------------------------------------------------------------------
(* C1 *)

\* C1: in every execution of withRetry and of withRetrySafe, whatever the
\* operation and the onRetry observer do, the operation is invoked at most
\* maxRetries + 1 times.
C1_CallsBounded == Calls <= PolicyMaxRetries + 1

\* An execution with an observer that used its whole budget of calls.
C1_Witness ==
    /\ pc = "done"
    /\ PolicyMaxRetries >= 2
    /\ Calls = PolicyMaxRetries + 1
    /\ Len(observed) = PolicyMaxRetries

----------------------------------------------------------------------------
(* C2 - C8 *)

\* Errors that match a transient pattern and no permanent one, a permanent
\* pattern (whatever else they match), both kinds, and neither.
OnlyTransient == Transient \ Permanent
Both          == Transient \cap Permanent
Unmatched     == DOMAIN Errors \ (Transient \cup Permanent)

\* How withRetry ended (lines 54-63): Exhausted is the throw of the last
\* attempt's retryable error, Aborted the throw of a non-retryable one.
Exhausted ==
    inner.kind = "raised" /\ inner.error \in Transient /\ attempt = PolicyMaxRetries

Aborted == inner.kind = "raised" /\ inner.error \notin Transient

\* C2: for every maxRetries = n >= 0, an operation that fails on every call
\* with a transient-classified error is invoked exactly n + 1 times and the
\* execution ends Exhausted (n = 0: one attempt, no retry).
C2_AlwaysTransientExhausts ==
    ( /\ pc = "done"
      /\ \A i \in DOMAIN opLog : FailedWith(i, OnlyTransient) )
    => /\ Calls = PolicyMaxRetries + 1
       /\ Exhausted
       /\ outcome = (IF form = "withRetrySafe" THEN "returned" ELSE "raised")

\* C3: when an attempt fails with a failure classified Permanent, the engine
\* stops at that attempt: no backoff wait and no further call of the
\* operation, whatever budget remains, and the execution ends Aborted with
\* that failure.
C3_PermanentStops ==
    \A i \in DOMAIN opLog :
        FailedWith(i, Permanent) =>
            /\ StopsAt(i)
            /\ \A j \in DOMAIN slept : slept[j].after < i
            /\ pc \in {"wrap", "done"} => inner = Raised(opLog[i].error)

\* C4: a failure that matches both a Transient and a Permanent pattern is
\* treated as Permanent: the operation is not retried.
C4_PermanentWins ==
    \A i \in DOMAIN opLog : FailedWith(i, Both) => StopsAt(i)

\* C5: a failure that matches no Transient and no Permanent pattern is
\* classified Transient: with retry budget remaining the engine waits and
\* retries, so it gives up on such a failure only on its last attempt.
C5_UnmatchedRetried ==
    ( /\ Calls >= 1
      /\ FailedWith(Len(opLog), Unmatched)
      /\ pc \in {"wrap", "done"} )
    => Calls = PolicyMaxRetries + 1

\* C6: classification is total and single-valued: every failure the engine
\* classifies is exactly one of transient (isTransientError) and permanent
\* (isPermanentError); "Error: 503 Service Unavailable" is Transient and
\* "401 Unauthorized: invalid token" is Permanent.
C6_ExactlyOneClass ==
    /\ "e503" \in Transient /\ "e503" \notin Permanent
    /\ "e401" \in Permanent /\ "e401" \notin Transient
    /\ pc = "catch" =>
           (caught.error \in Transient) # (caught.error \in Permanent)

\* C7: attempt 1 is preceded by no delay, and the delay slept before attempt
\* k (k >= 2) is initialDelay * backoffMultiplier^(k-2).
C7_DelaySchedule ==
    pc = "call" =>
        LET k == Calls + 1
            before == { j \in DOMAIN slept : slept[j].after = k - 1 }
        IN  IF k = 1
            THEN slept = << >>
            ELSE /\ Cardinality(before) = 1
                 /\ \A j \in before :
                        slept[j].delayMs =
                            PolicyInitialDelay * Pow(PolicyMultiplier, k - 2)

\* C8: the onRetry observer never affects control flow: when it throws, the
\* execution still sleeps, still calls the operation for the next attempt,
\* and ends as it would have with an observer that does not throw: one
\* operation call per loop iteration, one sleep per retry, and a raised
\* error that is the operation's.
C8_ObserverNeverAffectsControlFlow ==
    /\ caught.by # "onRetry"
    /\ pc = "done" =>
           /\ Calls = attempt + 1
           /\ Len(slept) = attempt
           /\ inner.kind = "raised" =>
                  ~LastOp.ok /\ inner.error = LastOp.error

----------------------------------------------------------------------------
(* C9 *)

\* C9: withRetrySafe never raises: whatever the operation and the observer
\* do it returns a RetryResult, with success = true and the operation's value
\* when a call of the operation succeeded, and success = false with the
\* final error (the one withRetry threw) otherwise.
C9_SafeNeverRaises ==
    form = "withRetrySafe" =>
        /\ outcome # "raised"
        /\ pc = "done" =>
               /\ outcome = "returned"
               /\ IF \E i \in DOMAIN opLog : opLog[i].ok
                  THEN /\ safeResult.success
                       /\ safeResult.result = LastOp.value
                       /\ safeResult.result \in Values
                  ELSE /\ ~safeResult.success
                       /\ safeResult.error = caught.error
                       /\ safeResult.error \in DOMAIN Errors

\* withRetrySafe has returned a failure result after the observer itself threw.
C9_Witness ==
    /\ form = "withRetrySafe"
    /\ pc = "done"
    /\ ~safeResult.success
    /\ caught.by = "onRetry"
    /\ Calls >= 1

----------------------------------------------------------------------------
(* C10 *)

\* C10: withRetry raises to its caller exactly when the execution ends
\* Exhausted or Aborted, and the error raised is the failure of the last
\* attempt made: not an earlier failure, not a generic error.
C10_RaisesLastFailure ==
    (form = "withRetry" /\ pc = "done") =>
        /\ outcome = "raised" <=> (Exhausted \/ Aborted)
        /\ outcome = "raised" <=> ~LastOp.ok
        /\ outcome = "raised" =>
               /\ inner.error = LastOp.error
               /\ inner.error # "eGeneric"

----------------------------------------------------------------------------
(* C11 - C14 *)

\* C11: if the operation fails with transient-classified errors on its first
\* j calls (0 <= j <= maxRetries) and succeeds on call j + 1, the engine
\* returns the value of call j + 1, makes exactly j + 1 calls, and the caller
\* observes no failure.  So an execution whose calls all failed with
\* transient errors ends only after maxRetries + 1 calls (before that, call
\* j + 1 is still to be made), and an execution whose last call succeeded
\* ends with that call's value.
C11_TransientFailuresAbsorbed ==
    pc = "done" =>
        /\ (\A i \in DOMAIN opLog : FailedWith(i, OnlyTransient))
               => Calls = PolicyMaxRetries + 1
        /\ ( /\ LastOp.ok
             /\ \A i \in 1..(Calls - 1) : FailedWith(i, OnlyTransient) )
               => /\ outcome = "returned"
                  /\ inner = Returned(LastOp.value)
                  /\ form = "withRetrySafe" =>
                         safeResult.success /\ safeResult.result = LastOp.value

\* C12: the attempts field returned by withRetrySafe equals the number of
\* times the operation was invoked: the index of the successful attempt on
\* success, maxRetries + 1 when exhausted, the index of the aborting attempt
\* (the call whose failure is returned) when aborted.
C12_AttemptsCountsCalls ==
    (form = "withRetrySafe" /\ pc = "done") =>
        /\ safeResult.attempts = Calls
        /\ safeResult.success => LastOp.ok
        /\ Exhausted => safeResult.attempts = PolicyMaxRetries + 1
        /\ Aborted =>
               /\ ~opLog[safeResult.attempts].ok
               /\ opLog[safeResult.attempts].error = safeResult.error

\* C13: once a retry execution has returned or raised its terminal outcome,
\* the operation is never invoked again by it, and no sleep or observer call
\* is pending: from then on nothing more happens in that execution.
C13_NothingAfterTerminalOutcome ==
    [][ outcome # "pending" =>
            /\ opLog' = opLog
            /\ slept' = slept
            /\ observed' = observed
            /\ outcome' = outcome ]_vars

\* withRetry has raised a non-retryable failure while budget remained.
C13_Witness ==
    /\ form = "withRetry"
    /\ pc = "done"
    /\ outcome = "raised"
    /\ Calls <= PolicyMaxRetries

\* C14: the observer is invoked exactly once per retry, before that retry's
\* backoff sleep and before the next operation call, with the number of
\* attempts completed so far, the error of the immediately preceding failed
\* attempt and exactly the delay that is then slept; never before attempt 1
\* nor after the terminal outcome.
C14_ObserverOncePerRetry ==
    /\ \A i \in DOMAIN observed :
           LET n == observed[i].calls
           IN  /\ n >= 1
               /\ observed[i].attempt = n
               /\ ~opLog[n].ok /\ observed[i].error = opLog[n].error
               /\ \A j \in DOMAIN observed : observed[j].calls = n => j = i
               /\ \/ i = Len(observed) /\ pc = "sleep"
                  \/ \E j \in DOMAIN slept :
                        /\ slept[j].after = n
                        /\ slept[j].delayMs = observed[i].delayMs
    /\ "onRetry" \in DOMAIN config =>
           \A j \in DOMAIN slept :
               \E i \in DOMAIN observed : observed[i].calls = slept[j].after
    /\ outcome # "pending" => pc = "done"

----------------------------------------------------------------------------
(* How far C2, C3, C7, C10, C11, C12 and C14 do hold *)

\* The observer has not thrown so far.
Quiet == \A i \in DOMAIN observed : ~observed[i].threw

\* As long as the observer does not throw, the statements of C2, C7, C8,
\* C10, C11, C12 and C14 hold: they fail only through the observer's
\* exception being caught by the retry loop.
QuietObserverLemma ==
    Quiet =>
        /\ C2_AlwaysTransientExhausts
        /\ C7_DelaySchedule
        /\ C8_ObserverNeverAffectsControlFlow
        /\ C10_RaisesLastFailure
        /\ C11_TransientFailuresAbsorbed
        /\ C12_AttemptsCountsCalls
        /\ C14_ObserverOncePerRetry

\* Whatever the observer does, the attempts field of withRetrySafe is the
\* number of operation calls made.
AttemptsLemma ==
    (form = "withRetrySafe" /\ pc = "done") => safeResult.attempts = Calls

\* A failure that matches a permanent pattern and no transient one stops the
\* engine at its first occurrence, as does every failure that shouldRetry
\* rejects: the statement of C3 fails only for failures matching both kinds.
NonRetryableStopsLemma ==
    \A i \in DOMAIN opLog :
        (~opLog[i].ok /\ ~shouldRetry(opLog[i].error)) =>
            /\ StopsAt(i)
            /\ \A j \in DOMAIN slept : slept[j].after < i
            /\ pc \in {"wrap", "done"} => inner = Raised(opLog[i].error)

----------------------------------------------------------------------------
(* Part 2: batchImages *)

MaxImages == 6

MaxCapacity == 7

MaxNegative == 2

\* The memory of the process holds at most this many batches; only a call
\* that has stopped making progress needs more (BatchCapLemma).
MaxLoopSteps == MaxImages + 1

Items == {"a", "b"}

Inputs == UNION { [1..n -> Items] : n \in 0..MaxImages }

Capacities == (0 - MaxNegative)..MaxCapacity

\* batchImages(images) and batchImages(images, maxPerBatch)
BatchArgs ==
    [ images : Inputs ] \cup [ images : Inputs, maxPerBatch : Capacities ]

\* api.config.ts: parseInt(process.env.TELEGRAM_BATCH_SIZE || '5'), variable unset
telegramBatchSize == 5

\* media-handler.ts: maxPerBatch: number = 10
defaultMaxPerBatch == 10

\* camera-selector.ts: maxPerBatch ?? apiConfig.telegramBatchSize
\* media-handler.ts: the default value of the parameter
batchSize ==
    IF "maxPerBatch" \in DOMAIN args
    THEN args.maxPerBatch
    ELSE IF impl = "cameraSelector" THEN telegramBatchSize ELSE defaultMaxPerBatch

Max(a, b) == IF a >= b THEN a ELSE b

Min(a, b) == IF a <= b THEN a ELSE b

\* Mutant: slice takes the element at index `end` too.
slice_endInclusive(s, start, end) ==
    LET len  == Len(s)
        from == IF start < 0 THEN Max(len + start, 0) ELSE Min(start, len)
        to   == IF end < 0 THEN Max(len + end, 0) ELSE Min(end, len)
    IN  IF from < to THEN SubSeq(s, from + 1, Min(to + 1, len)) ELSE << >>

\* Array.prototype.slice(start, end): a negative index counts from the end,
\* both are clamped to 0..length, the result is empty unless start < end.
slice(s, start, end) ==
    LET len  == Len(s)
        from == IF start < 0 THEN Max(len + start, 0) ELSE Min(start, len)
        to   == IF end < 0 THEN Max(len + end, 0) ELSE Min(end, len)
    IN  IF from < to THEN SubSeq(s, from + 1, to) ELSE << >>

InitBatch ==
    /\ CaptureIdle
    /\ RetryIdle
    /\ RunIdle
    /\ StoreIdle
    /\ impl \in {"cameraSelector", "mediaHandler"}
    /\ args \in BatchArgs
    /\ loopI = 0
    /\ batches = << >>
    /\ bpc = "entry"

\* camera-selector.ts 62-69: the early return, else `const batches = []`.
\* media-handler.ts 32: `const batches = []`, there is no early return.
BatchEntry ==
    /\ bpc = "entry"
    /\ IF /\ impl = "cameraSelector"
          /\ (batchSize = 0 \/ batchSize >= Len(args.images))
       THEN batches' = << args.images >> /\ bpc' = "returned"
       ELSE batches' = << >> /\ bpc' = "loop"
    /\ loopI' = 0
    /\ UNCHANGED << impl, args, retryVars, runVars, storeVars, captureVars >>

\* One iteration: for (let i = 0; i < images.length; i += batchSize)
\*                  batches.push(images.slice(i, i + batchSize))
\* A push that no longer fits in memory ends the process (heap out of
\* memory) without batchImages returning.
BatchLoop ==
    /\ bpc = "loop"
    /\ loopI < Len(args.images)
    /\ IF Len(batches) < MaxLoopSteps
       THEN /\ batches' = Append(batches,
                   slice(args.images, loopI, loopI + batchSize))
            /\ loopI' = loopI + batchSize
            /\ UNCHANGED bpc
       ELSE /\ bpc' = "crashed"
            /\ UNCHANGED << batches, loopI >>
    /\ UNCHANGED << impl, args, retryVars, runVars, storeVars, captureVars >>

\* The loop test fails: return batches
BatchReturn ==
    /\ bpc = "loop"
    /\ ~(loopI < Len(args.images))
    /\ bpc' = "returned"
    /\ UNCHANGED << impl, args, loopI, batches, retryVars, runVars, storeVars, captureVars >>

NextBatch == BatchEntry \/ BatchLoop \/ BatchReturn

SpecBatch == InitBatch /\ [][NextBatch]_vars

\* batchImages is synchronous code: it keeps running as long as it can.
FairSpecBatch == SpecBatch /\ WF_vars(NextBatch)

----------------------------------------------------------------------------
(* C15 - C18 *)

RECURSIVE Concat(_)
Concat(bs) == IF bs = << >> THEN << >> ELSE Head(bs) \o Concat(Tail(bs))

\* C15: for every item sequence and every non-negative capacity, batchImages
\* terminates, and concatenating its batches in order reproduces the input
\* sequence exactly.
C15_ConcatReproducesInput ==
    (bpc = "entry" /\ batchSize >= 0)
        ~> (bpc = "returned" /\ Concat(batches) = args.images)

\* C16: when the capacity is non-positive or at least the number of items,
\* batchImages terminates and returns a single batch equal to the whole input.
C16_SingleBatch ==
    (bpc = "entry" /\ (batchSize <= 0 \/ batchSize >= Len(args.images)))
        ~> (bpc = "returned" /\ batches = << args.images >>)

\* C17: batchImages of an empty sequence returns an empty sequence of batches,
\* and of a non-empty sequence it returns no empty batch.
C17_NoEmptyBatch ==
    bpc = "returned" =>
        /\ args.images = << >> => batches = << >>
        /\ args.images # << >> =>
               \A k \in DOMAIN batches : batches[k] # << >>

\* C18: for a positive capacity c smaller than the number of items, every
\* batch returned is a contiguous run of exactly c items, except the last,
\* which holds between 1 and c items; no batch exceeds c.
C18_ContiguousRuns ==
    (bpc = "returned" /\ batchSize > 0 /\ batchSize < Len(args.images)) =>
        LET c == batchSize
            n == Len(batches)
        IN  /\ n >= 2
            /\ \A k \in 1..(n - 1) :
                   batches[k] = SubSeq(args.images, (k - 1) * c + 1, k * c)
            /\ batches[n] = SubSeq(args.images, (n - 1) * c + 1, Len(args.images))
            /\ Len(batches[n]) \in 1..c
            /\ \A k \in 1..n : Len(batches[k]) <= c

\* Five items in batches of two: the last batch is smaller than the others.
C18_Witness ==
    /\ bpc = "returned"
    /\ batchSize = 2
    /\ Len(args.images) = 5
    /\ Len(batches) = 3
    /\ Len(batches[3]) = 1

----------------------------------------------------------------------------
(* How far C15, C16 and C17 do hold *)

\* Memory runs out only in calls whose step is not positive, where the loop
\* variable never reaches images.length.
BatchCapLemma ==
    bpc = "crashed" => (batchSize <= 0 /\ loopI < Len(args.images))

\* With a positive capacity both functions terminate with batches whose
\* concatenation is the input; camera-selector's does so for capacity 0 too.
BatchPositiveLemma ==
    (bpc = "entry" /\ (batchSize > 0 \/ (impl = "cameraSelector" /\ batchSize = 0)))
        ~> (bpc = "returned" /\ Concat(batches) = args.images)

\* camera-selector's batchImages returns the whole input as a single batch
\* for capacity 0 and for a capacity of at least the number of items;
\* media-handler's does for a non-empty input and a capacity of at least the
\* number of items.
BatchSingleLemma ==
    ( /\ bpc = "entry"
      /\ \/ impl = "cameraSelector"
            /\ (batchSize = 0 \/ batchSize >= Len(args.images))
         \/ impl = "mediaHandler"
            /\ args.images # << >> /\ batchSize >= Len(args.images) )
        ~> (bpc = "returned" /\ batches = << args.images >>)

\* Only the empty input of camera-selector's batchImages yields an empty batch.
BatchEmptyLemma ==
    (bpc = "returned" /\ ~(impl = "cameraSelector" /\ args.images = << >>))
        => C17_NoEmptyBatch

----------------------------------------------------------------------------
(* Fallback storage: file-manager.ts and fallback.service.ts *)

MaxClock == 2

\* What a second new Date() within one call can read after the first read t:
\* the same millisecond or the next.
LaterReadings(t) == { u \in t..MaxClock : u <= t + 1 }

\* new Date().toISOString().replace(/[:.]/g, '-'): the reading in whole
\* seconds and the milliseconds within the second.
timestamp(t) == << t \div 1000, t % 1000 >>

\* A container is a directory of data/failed_reports.  Each file is << >>
\* when absent and << content >> when present; images is the directory
\* images/, a function from file names to file contents.
EmptyContainer ==
    [ analysis |-> << >>, errorLog |-> << >>, images |-> << >>,
      metadata |-> << >>, readme |-> << >> ]

\* ensureDir(reportDir): mkdir only when the directory does not exist.
ensureDir(d, name) ==
    IF name \in DOMAIN d THEN d ELSE (name :> EmptyContainer) @@ d

\* saveTextFile: fs.writeFileSync creates the file or replaces its content.
saveTextFile(d, name, file, content) ==
    [ d EXCEPT ![name] = [ @ EXCEPT ![file] = << content >> ] ]

\* img.location: an image is named by its camera, a number here, which
\* sanitizeFilename leaves as it is.
location(img) == img

\* `${fileTimestamp}_${i + 1}_${sanitizeFilename(img.location)}.png`
imagePath(fileTimestamp, index, img) == << fileTimestamp, index, location(img) >>

\* saveImages: one file per image, written over a file of the same name.
saveImages(d, name, imgs, fileTimestamp) ==
    LET written ==
            [ f \in { imagePath(fileTimestamp, k, imgs[k]) : k \in DOMAIN imgs } |->
                imgs[CHOOSE k \in DOMAIN imgs : imagePath(fileTimestamp, k, imgs[k]) = f] ]
    IN  [ d EXCEPT ![name] = [ @ EXCEPT !.images = written @@ @ ] ]

\* Mutant: the index of the metadata counts from 0.
imageMetadata_zeroBased(imgs, fileTimestamp) ==
    [ k \in DOMAIN imgs |->
        [ index |-> k - 1, location |-> imgs[k],
          filename |-> imagePath(fileTimestamp, k, imgs[k]) ] ]

\* What saveImages returns: index, location and file name of every image.
imageMetadata(imgs, fileTimestamp) ==
    [ k \in DOMAIN imgs |->
        [ index |-> k, location |-> imgs[k],
          filename |-> imagePath(fileTimestamp, k, imgs[k]) ] ]

\* The content of error.log and of README.txt, as far as they depend on the call.
errorLog(error) == [ message |-> error ]

readme(name, error) == [ reportDir |-> name, reason |-> error ]

\* The file-system operations of saveFailedReport, in order: the mkdir of
\* createReportDirectory, analysis.txt, error.log, saveImages,
\* images_metadata.json, README.txt.
SaveStages == 6

\* createReportDirectory: path.join(FAILED_REPORTS_DIR, timestamp)
reportDirName(t) == timestamp(t)

\* The disk after the first k file-system operations of
\* saveFailedReport(text, imgs, error) have succeeded (the next one, if any,
\* throws); t is the clock read by createReportDirectory and tImages the one
\* read by saveImages.
saveFailedReport(d, t, tImages, text, imgs, error, k) ==
    LET name == reportDirName(t)
        d1 == IF k >= 1 THEN ensureDir(d, name) ELSE d
        d2 == IF k >= 2 THEN saveTextFile(d1, name, "analysis", text) ELSE d1
        d3 == IF k >= 3 THEN saveTextFile(d2, name, "errorLog", errorLog(error)) ELSE d2
        d4 == IF k >= 4 THEN saveImages(d3, name, imgs, timestamp(tImages)) ELSE d3
        d5 == IF k >= 5
              THEN saveTextFile(d4, name, "metadata",
                                imageMetadata(imgs, timestamp(tImages)))
              ELSE d4
        d6 == IF k >= 6 THEN saveTextFile(d5, name, "readme", readme(name, error)) ELSE d5
    IN  d6

----------------------------------------------------------------------------
(* Part 3: the orchestrator *)

MaxCaptured == 21

\* capturedImages after n successful captures, each image named by its position.
Captured(n) == [ k \in 1..n |-> k ]

\* What captureAndAnalyze throws before it reaches the analysis.
CaptureErrors == {"No images were captured", "browserType.launch: Timeout 30000ms exceeded"}

\* What analyzeMultipleImages resolves to, and what it rejects with.
AiTexts == {"report", " report ", " ", ""}

AiErrors == {"503 Service Unavailable"}

\* What sendWeatherReport rejects with.
TelegramErrors == {"ETELEGRAM: 429 Too Many Requests", "ETELEGRAM: 401 Unauthorized"}

\* String.prototype.trim on the texts above.
trim(t) == IF t = " report " THEN "report" ELSE IF t = " " THEN "" ELSE t

\* generateFallbackMessage(dayName): a fixed, non-empty text.
generateFallbackMessage == "fallback"

NoStatus ==
    [ captureSuccess |-> FALSE, analysisSuccess |-> FALSE, telegramSuccess |-> FALSE ]

AllStatuses ==
    [ captureSuccess : BOOLEAN, analysisSuccess : BOOLEAN, telegramSuccess : BOOLEAN ]

\* Mutant: a failed delivery is a partial success whatever came before.
determineExitCode_telegramFirst(st) ==
    IF st.captureSuccess /\ st.analysisSuccess /\ st.telegramSuccess THEN 0
    ELSE IF ~st.telegramSuccess THEN 1
    ELSE 2

determineExitCode(st) ==
    IF st.captureSuccess /\ st.analysisSuccess /\ st.telegramSuccess THEN 0
    ELSE IF ~st.captureSuccess \/ ~st.analysisSuccess THEN 2
    ELSE IF st.captureSuccess /\ st.analysisSuccess /\ ~st.telegramSuccess THEN 1
    ELSE 2

\* Mutant: step 2 is entered whatever step 1 produced.
ShouldDeliver_always == TRUE

\* Mutant: step 2 is entered whenever there is an image.
ShouldDeliver_anyText == Len(images) > 0

\* if (analysis && images.length > 0)
ShouldDeliver == analysis # None /\ analysis # "" /\ Len(images) > 0

\* Step 3: whether sendError(captureError) is attempted.
ShouldNotify ==
    IF exitCode = 0 THEN FALSE
    ELSE IF exitCode = 1
         THEN captureError # None /\ status.telegramSuccess = FALSE
         ELSE captureError # None

Did(call, ok) == [ call |-> call, ok |-> ok ]

\* Mutant: sendError under the policy of the report sends (retryConfigs.telegram).
telegramErrorConfig_telegram ==
    [ maxRetries |-> 3, initialDelayMs |-> 60000, backoffMultiplier |-> 2,
      onRetry |-> "logRetryAttempt" ]

\* {...retryConfigs.telegramError, onRetry: ...}
telegramErrorConfig ==
    [ maxRetries |-> 2, initialDelayMs |-> 60000, backoffMultiplier |-> 2,
      onRetry |-> "logRetryAttempt" ]

\* What the TelegramService constructor throws when the token is not set.
TokenError == "TELEGRAM_BOT_TOKEN is not set in environment variables"

\* A container left in data/failed_reports by an earlier run.
OldContainer ==
    saveFailedReport(<< >>, 0, 0, "earlier report", << 1 >>,
                     "ETELEGRAM: 429 Too Many Requests", SaveStages)

InitRun ==
    /\ CaptureIdle
    /\ RetryIdle
    /\ BatchIdle
    /\ entry \in {"run", "determineExitCode"}
    /\ IF entry = "run"
       THEN /\ status = NoStatus
            /\ rpc = "capture"
            /\ configured \in BOOLEAN
            /\ disk \in {<< >>, OldContainer}
       ELSE /\ status \in AllStatuses
            /\ rpc = "exitcode"
            /\ configured = TRUE
            /\ disk = << >>
    /\ clock = 1
    /\ reply = [ call |-> None, value |-> << >> ]
    /\ analysis = None
    /\ images = << >>
    /\ captureError = None
    /\ capturedImages = << >>
    /\ telegramError = None
    /\ exitCode = -1
    /\ batchIndex = 0
    /\ work = << >>

\* Step 1, first half: captureAndAnalyze up to the analysis.  It throws (no
\* image captured, browser failure) or holds between 1 and targetCount images.
RunCapture ==
    /\ rpc = "capture"
    /\ \/ \E n \in 1..MaxCaptured :
            /\ capturedImages' = Captured(n)
            /\ work' = Append(work, Did("capture", TRUE))
            /\ rpc' = "analyze"
            /\ UNCHANGED captureError
       \/ \E e \in CaptureErrors :
            /\ captureError' = e
            /\ work' = Append(work, Did("capture", FALSE))
            /\ rpc' = "send"
            /\ UNCHANGED capturedImages
    /\ UNCHANGED << entry, status, analysis, images, telegramError, exitCode,
                    configured, batchIndex, retryVars, batchVars, storeVars, captureVars >>

\* Mutant: captureAndAnalyze lets the failure of the analysis through.
RunAnalyze_abort ==
    /\ rpc = "analyze"
    /\ \/ \E t \in AiTexts :
            /\ analysis' = trim(t)
            /\ work' = Append(work, Did("analyzeMultipleImages", TRUE))
            /\ images' = capturedImages
            /\ status' = [ status EXCEPT !.captureSuccess = TRUE,
                                         !.analysisSuccess = TRUE ]
            /\ UNCHANGED captureError
       \/ \E e \in AiErrors :
            /\ captureError' = e
            /\ work' = Append(work, Did("analyzeMultipleImages", FALSE))
            /\ UNCHANGED << analysis, images, status >>
    /\ rpc' = "send"
    /\ UNCHANGED << entry, capturedImages, telegramError, exitCode,
                    configured, batchIndex, retryVars, batchVars, storeVars, captureVars >>

\* Step 1, second half: analyzeMultipleImages, the fallback text when it
\* throws, the return of captureAndAnalyze and the four assignments of run.
RunAnalyze ==
    /\ rpc = "analyze"
    /\ \/ \E t \in AiTexts :
            /\ analysis' = trim(t)
            /\ work' = Append(work, Did("analyzeMultipleImages", TRUE))
       \/ \E e \in AiErrors :
            /\ analysis' = trim(generateFallbackMessage)
            /\ work' = Append(work, Did("analyzeMultipleImages", FALSE))
    /\ images' = capturedImages
    /\ status' = [ status EXCEPT !.captureSuccess = TRUE, !.analysisSuccess = TRUE ]
    /\ rpc' = "send"
    /\ UNCHANGED << entry, captureError, capturedImages, telegramError, exitCode,
                    configured, batchIndex, retryVars, batchVars, storeVars, captureVars >>

\* Step 2: the guard, then the call of sendWeatherReport: getTelegramService
\* (whose constructor throws without a token), then batchImages(images).
RunSend ==
    /\ rpc = "send"
    /\ IF ShouldDeliver
       THEN /\ work' = Append(work,
                   [ call |-> "sendWeatherReport", analysis |-> analysis,
                     images |-> images ])
            /\ IF configured
               THEN /\ impl' = "mediaHandler"
                    /\ args' = [ images |-> images ]
                    /\ bpc' = "entry"
                    /\ rpc' = "batches"
                    /\ UNCHANGED telegramError
               ELSE /\ telegramError' = TokenError
                    /\ rpc' = "save"
                    /\ UNCHANGED << impl, args, bpc >>
       ELSE /\ rpc' = "exitcode"
            /\ UNCHANGED << work, telegramError, impl, args, bpc >>
    /\ batchIndex' = 0
    /\ UNCHANGED << entry, status, analysis, images, captureError, capturedImages,
                    exitCode, configured, loopI, batches, retryVars, storeVars, captureVars >>

\* Mutant: a batch that failed for good ends the loop over the batches.
RunSendBatch_abortOnFailure ==
    /\ rpc = "batches"
    /\ bpc = "returned"
    /\ batchIndex < Len(batches)
    /\ \/ work' = work
               \o << [ call |-> "sendMediaGroup", ok |-> TRUE,
                       batch |-> batchIndex + 1, items |-> batches[batchIndex + 1] ] >>
               \o (IF batchIndex + 1 < Len(batches)
                   THEN << [ call |-> "pause", ok |-> TRUE, batch |-> batchIndex + 1 ] >>
                   ELSE << >>)
       \/ \E e \in TelegramErrors, notified \in BOOLEAN :
            work' = work
               \o << [ call |-> "sendMediaGroup", ok |-> FALSE,
                       batch |-> batchIndex + 1, items |-> batches[batchIndex + 1] ],
                     [ call |-> "sendMessage(loss)", ok |-> notified,
                       batch |-> batchIndex + 1, error |-> e ] >>
    /\ batchIndex' = IF \E k \in DOMAIN work' : work'[k].call = "sendMediaGroup" /\ ~work'[k].ok
                     THEN Len(batches) ELSE batchIndex + 1
    /\ UNCHANGED << entry, rpc, status, analysis, images, captureError,
                    capturedImages, telegramError, exitCode, configured,
                    retryVars, batchVars, storeVars, captureVars >>

\* Mutant: the pause is taken after every batch that was sent, the last one too.
RunSendBatch_alwaysPauses ==
    /\ rpc = "batches"
    /\ bpc = "returned"
    /\ batchIndex < Len(batches)
    /\ \/ work' = work
               \o << [ call |-> "sendMediaGroup", ok |-> TRUE,
                       batch |-> batchIndex + 1, items |-> batches[batchIndex + 1] ] >>
               \o (IF TRUE
                   THEN << [ call |-> "pause", ok |-> TRUE, batch |-> batchIndex + 1 ] >>
                   ELSE << >>)
       \/ \E e \in TelegramErrors, notified \in BOOLEAN :
            work' = work
               \o << [ call |-> "sendMediaGroup", ok |-> FALSE,
                       batch |-> batchIndex + 1, items |-> batches[batchIndex + 1] ],
                     [ call |-> "sendMessage(loss)", ok |-> notified,
                       batch |-> batchIndex + 1, error |-> e ] >>
    /\ batchIndex' = batchIndex + 1
    /\ UNCHANGED << entry, rpc, status, analysis, images, captureError,
                    capturedImages, telegramError, exitCode, configured,
                    retryVars, batchVars, storeVars, captureVars >>

\* sendWeatherReport, one iteration of the loop over the batches: the media
\* group under withRetrySafe; when it failed, the loss notification, whose
\* failure is only logged, then `continue`; when it succeeded, the pause
\* unless the batch is the last one.
RunSendBatch ==
    /\ rpc = "batches"
    /\ bpc = "returned"
    /\ batchIndex < Len(batches)
    /\ \/ work' = work
               \o << [ call |-> "sendMediaGroup", ok |-> TRUE,
                       batch |-> batchIndex + 1, items |-> batches[batchIndex + 1] ] >>
               \o (IF batchIndex + 1 < Len(batches)
                   THEN << [ call |-> "pause", ok |-> TRUE, batch |-> batchIndex + 1 ] >>
                   ELSE << >>)
       \/ \E e \in TelegramErrors, notified \in BOOLEAN :
            work' = work
               \o << [ call |-> "sendMediaGroup", ok |-> FALSE,
                       batch |-> batchIndex + 1, items |-> batches[batchIndex + 1] ],
                     [ call |-> "sendMessage(loss)", ok |-> notified,
                       batch |-> batchIndex + 1, error |-> e ] >>
    /\ batchIndex' = batchIndex + 1
    /\ UNCHANGED << entry, rpc, status, analysis, images, captureError,
                    capturedImages, telegramError, exitCode, configured,
                    retryVars, batchVars, storeVars, captureVars >>

\* Mutant: the report counts as sent only if no batch failed.
RunSendText_needsBatches ==
    /\ rpc = "batches"
    /\ bpc = "returned"
    /\ ~(batchIndex < Len(batches))
    /\ \/ /\ work' = Append(work,
                 [ call |-> "sendMessage(analysis)", ok |-> TRUE,
                   text |-> analysis, error |-> None ])
          /\ status' = [ status EXCEPT !.telegramSuccess =
                 \A k \in DOMAIN work : work[k].call = "sendMediaGroup" => work[k].ok ]
          /\ rpc' = "exitcode"
          /\ UNCHANGED telegramError
       \/ \E e \in TelegramErrors :
          /\ work' = Append(work,
                 [ call |-> "sendMessage(analysis)", ok |-> FALSE,
                   text |-> analysis, error |-> e ])
          /\ telegramError' = e
          /\ rpc' = "save"
          /\ UNCHANGED status
    /\ UNCHANGED << entry, analysis, images, captureError, capturedImages,
                    exitCode, configured, batchIndex, retryVars, batchVars,
                    storeVars, captureVars >>

\* Mutant: the report is saved locally after the text send, sent or not.
RunSendText_alwaysSaves ==
    /\ rpc = "batches"
    /\ bpc = "returned"
    /\ ~(batchIndex < Len(batches))
    /\ \/ /\ work' = Append(work,
                 [ call |-> "sendMessage(analysis)", ok |-> TRUE,
                   text |-> analysis, error |-> None ])
          /\ status' = [ status EXCEPT !.telegramSuccess = TRUE ]
          /\ rpc' = "save"
          /\ UNCHANGED telegramError
       \/ \E e \in TelegramErrors :
          /\ work' = Append(work,
                 [ call |-> "sendMessage(analysis)", ok |-> FALSE,
                   text |-> analysis, error |-> e ])
          /\ telegramError' = e
          /\ rpc' = "save"
          /\ UNCHANGED status
    /\ UNCHANGED << entry, analysis, images, captureError, capturedImages,
                    exitCode, configured, batchIndex, retryVars, batchVars,
                    storeVars, captureVars >>

\* Mutant: the status is built anew when the report has been sent.
RunSendText_resetsStatus ==
    /\ rpc = "batches"
    /\ bpc = "returned"
    /\ ~(batchIndex < Len(batches))
    /\ \/ /\ work' = Append(work,
                 [ call |-> "sendMessage(analysis)", ok |-> TRUE,
                   text |-> analysis, error |-> None ])
          /\ status' = [ NoStatus EXCEPT !.telegramSuccess = TRUE ]
          /\ rpc' = "exitcode"
          /\ UNCHANGED telegramError
       \/ \E e \in TelegramErrors :
          /\ work' = Append(work,
                 [ call |-> "sendMessage(analysis)", ok |-> FALSE,
                   text |-> analysis, error |-> e ])
          /\ telegramError' = e
          /\ rpc' = "save"
          /\ UNCHANGED status
    /\ UNCHANGED << entry, analysis, images, captureError, capturedImages,
                    exitCode, configured, batchIndex, retryVars, batchVars,
                    storeVars, captureVars >>

\* sendWeatherReport after the loop: the analysis text under withRetry.  When
\* it is sent, sendWeatherReport returns and run sets telegramSuccess; when
\* withRetry throws, run's catch block is entered.
RunSendText ==
    /\ rpc = "batches"
    /\ bpc = "returned"
    /\ ~(batchIndex < Len(batches))
    /\ \/ /\ work' = Append(work,
                 [ call |-> "sendMessage(analysis)", ok |-> TRUE,
                   text |-> analysis, error |-> None ])
          /\ status' = [ status EXCEPT !.telegramSuccess = TRUE ]
          /\ rpc' = "exitcode"
          /\ UNCHANGED telegramError
       \/ \E e \in TelegramErrors :
          /\ work' = Append(work,
                 [ call |-> "sendMessage(analysis)", ok |-> FALSE,
                   text |-> analysis, error |-> e ])
          /\ telegramError' = e
          /\ rpc' = "save"
          /\ UNCHANGED status
    /\ UNCHANGED << entry, analysis, images, captureError, capturedImages,
                    exitCode, configured, batchIndex, retryVars, batchVars,
                    storeVars, captureVars >>

\* Mutant: the save starts from an emptied data/failed_reports.
RunSave_replaceOld ==
    /\ rpc = "save"
    /\ \E k \in 0..SaveStages, tImages \in LaterReadings(clock) :
          /\ k < 4 => tImages = clock
          /\ disk' = saveFailedReport(<< >>, clock, tImages, analysis, images,
                                      telegramError, k)
          /\ clock' = tImages
          /\ work' = Append(work,
                 [ call |-> "saveFailedReport", ok |-> k = SaveStages, stages |-> k,
                   analysis |-> analysis, images |-> images,
                   error |-> telegramError, dir |-> reportDirName(clock) ])
    /\ rpc' = "exitcode"
    /\ UNCHANGED << entry, status, analysis, images, captureError,
                    capturedImages, telegramError, exitCode, configured,
                    batchIndex, reply, retryVars, batchVars, captureVars >>

\* Mutant: what saveFailedReport throws leaves run unhandled.
RunSave_rethrows ==
    /\ rpc = "save"
    /\ \E k \in 0..SaveStages, tImages \in LaterReadings(clock) :
          /\ k < 4 => tImages = clock
          /\ disk' = saveFailedReport(disk, clock, tImages, analysis, images,
                                      telegramError, k)
          /\ clock' = tImages
          /\ work' = Append(work,
                 [ call |-> "saveFailedReport", ok |-> k = SaveStages, stages |-> k,
                   analysis |-> analysis, images |-> images,
                   error |-> telegramError, dir |-> reportDirName(clock) ])
    /\ rpc' = IF work'[Len(work')].ok THEN "exitcode" ELSE "crashed"
    /\ UNCHANGED << entry, status, analysis, images, captureError,
                    capturedImages, telegramError, exitCode, configured,
                    batchIndex, reply, retryVars, batchVars, captureVars >>

\* Step 2, catch block: saveFailedReport(analysis, images, err), whose own
\* failure is only logged.  k of its file-system operations succeed.
RunSave ==
    /\ rpc = "save"
    /\ \E k \in 0..SaveStages, tImages \in LaterReadings(clock) :
          /\ k < 4 => tImages = clock
          /\ disk' = saveFailedReport(disk, clock, tImages, analysis, images,
                                      telegramError, k)
          /\ clock' = tImages
          /\ work' = Append(work,
                 [ call |-> "saveFailedReport", ok |-> k = SaveStages, stages |-> k,
                   analysis |-> analysis, images |-> images,
                   error |-> telegramError, dir |-> reportDirName(clock) ])
    /\ rpc' = "exitcode"
    /\ UNCHANGED << entry, status, analysis, images, captureError,
                    capturedImages, telegramError, exitCode, configured,
                    batchIndex, reply, retryVars, batchVars, captureVars >>

\* Step 3: const exitCode = determineExitCode(status)
RunExitCode ==
    /\ rpc = "exitcode"
    /\ exitCode' = determineExitCode(status)
    /\ rpc' = IF entry = "run" THEN "notify" ELSE "returned"
    /\ UNCHANGED << entry, status, analysis, images, captureError,
                    capturedImages, telegramError, configured, batchIndex, work,
                    retryVars, batchVars, storeVars, captureVars >>

\* Step 3: the three branches on exitCode.  sendError(captureError):
\* getTelegramService, then TelegramService.sendError starts withRetrySafe
\* over bot.sendMessage.  What the constructor throws is caught by run.
RunNotify ==
    /\ rpc = "notify"
    /\ IF ShouldNotify
       THEN IF configured
            THEN /\ form' = "withRetrySafe"
                 /\ config' = telegramErrorConfig
                 /\ pc' = "call"
                 /\ rpc' = "notifying"
                 /\ UNCHANGED work
            ELSE /\ work' = Append(work,
                        [ call |-> "sendError", ok |-> FALSE,
                          error |-> captureError, delivered |-> FALSE ])
                 /\ rpc' = "exit"
                 /\ UNCHANGED << form, config, pc >>
       ELSE /\ rpc' = "exit"
            /\ UNCHANGED << work, form, config, pc >>
    /\ UNCHANGED << entry, status, analysis, images, captureError,
                    capturedImages, telegramError, exitCode, configured,
                    batchIndex, attempt, lastError, caught, delayMs, attempts,
                    inner, safeResult, outcome, opLog, slept, observed,
                    batchVars, storeVars, captureVars >>

\* TelegramService.sendError after withRetrySafe has returned: the failure
\* is logged (logErrorLocally catches what its own writes throw); sendError
\* returns to run.
RunNotified ==
    /\ rpc = "notifying"
    /\ pc = "done"
    /\ work' = Append(work,
           [ call |-> "sendError", ok |-> outcome = "returned",
             error |-> captureError, delivered |-> safeResult.success ])
    /\ rpc' = "exit"
    /\ UNCHANGED << entry, status, analysis, images, captureError,
                    capturedImages, telegramError, exitCode, configured,
                    batchIndex, retryVars, batchVars, storeVars, captureVars >>

\* process.exit(exitCode)
RunExit ==
    /\ rpc = "exit"
    /\ rpc' = "exited"
    /\ UNCHANGED << entry, status, analysis, images, captureError,
                    capturedImages, telegramError, exitCode, configured,
                    batchIndex, work, retryVars, batchVars, storeVars, captureVars >>

NextRun ==
    \/ RunCapture \/ RunAnalyze \/ RunSend
    \/ BatchEntry \/ BatchLoop \/ BatchReturn
    \/ RunSendBatch \/ RunSendText \/ RunSave
    \/ RunExitCode \/ RunNotify
    \/ Notify \/ Sleep \/ Call \/ Catch \/ SafeReturn
    \/ RunNotified \/ RunExit

SpecRun == InitRun /\ [][NextRun]_vars

\* Every collaborator call returns or fails and the event loop runs every
\* continuation: a run that can take a step takes one.
FairSpecRun == SpecRun /\ WF_vars(NextRun)

----------------------------------------------------------------------------
(* C19 - C20 *)

acquisitionOk == status.captureSuccess

transformationOk == status.analysisSuccess

deliveryOk == status.telegramSuccess

ExitCodeKnown == rpc \in {"returned", "notify", "exit", "exited"}

Called(call) == \E k \in DOMAIN work : work[k].call = call

\* C19: the exit code is a function of the final status only: 0 when
\* acquisition, transformation and delivery are all ok, 2 when acquisition or
\* transformation is not ok whatever delivery is, 1 when the first two are ok
\* and delivery is not; no other code is produced.
C19_ExitCodeFromStatus ==
    ExitCodeKnown =>
        /\ exitCode \in {0, 1, 2}
        /\ exitCode = 0 <=> (acquisitionOk /\ transformationOk /\ deliveryOk)
        /\ exitCode = 2 <=> (~acquisitionOk \/ ~transformationOk)
        /\ exitCode = 1 <=> (acquisitionOk /\ transformationOk /\ ~deliveryOk)

\* A direct call with acquisition and delivery ok but transformation not ok.
C19_Witness ==
    /\ rpc = "returned"
    /\ acquisitionOk /\ ~transformationOk /\ deliveryOk
    /\ exitCode = 2

\* C20: when acquisition fails, the final status is all false, the exit code
\* is 2, and no downstream stage work happens in that run: no transformation
\* call, no delivery, no fallback bundle written.
C20_AcquisitionFailureStopsRun ==
    (entry = "run" /\ Called("capture") /\ ~work[1].ok) =>
        /\ status = NoStatus
        /\ ExitCodeKnown => exitCode = 2
        /\ ~Called("analyzeMultipleImages")
        /\ ~Called("sendWeatherReport")
        /\ ~Called("saveFailedReport")

\* The run has exited after a failed acquisition.
C20_Witness ==
    /\ entry = "run"
    /\ rpc = "exited"
    /\ captureError # None
    /\ ~work[1].ok
    /\ exitCode = 2

----------------------------------------------------------------------------
(* C21 - C22 *)

\* The remote call of the transformation ended in failure in this run.
TransformationFailed ==
    entry = "run" /\ \E k \in DOMAIN work : work[k] = Did("analyzeMultipleImages", FALSE)

DeliveryDecided == rpc \notin {"idle", "capture", "analyze", "send"}

\* C21: when the transformation's remote call ends in failure, the pipeline
\* does not abort: it substitutes the fallback text and still runs the
\* delivery stage with the acquired items and that fallback text.
C21_FallbackTextDelivered ==
    TransformationFailed =>
        /\ analysis = generateFallbackMessage
        /\ images = capturedImages /\ images # << >>
        /\ DeliveryDecided =>
               \E k \in DOMAIN work :
                   /\ work[k].call = "sendWeatherReport"
                   /\ work[k].analysis = generateFallbackMessage
                   /\ work[k].images = capturedImages

\* The run has exited after the fallback text was delivered.
C21_Witness ==
    /\ TransformationFailed
    /\ rpc = "exited"
    /\ \E k \in DOMAIN work :
           /\ work[k].call = "sendMessage(analysis)"
           /\ work[k].ok
           /\ work[k].text = generateFallbackMessage

\* C22: transformationOk records whether the transformation's remote call
\* itself succeeded: when it failed and the fallback text was substituted,
\* transformationOk is false and the exit code is 2, even if the fallback
\* text is delivered.
C22_FallbackIsFailure ==
    TransformationFailed =>
        /\ ~transformationOk
        /\ ExitCodeKnown => exitCode = 2

----------------------------------------------------------------------------
(* C23 *)

WorkOf(call) == { k \in DOMAIN work : work[k].call = call }

\* The containers this run has created.
Created == DOMAIN disk \ DOMAIN OldContainer

\* The remote call of the transformation succeeded in this run.
TransformationSucceeded ==
    entry = "run" /\ \E k \in DOMAIN work : work[k] = Did("analyzeMultipleImages", TRUE)

\* Every batch was attempted and failed, then the text send failed.
AllDeliveryFailed ==
    /\ WorkOf("sendMediaGroup") # {}
    /\ \A k \in WorkOf("sendMediaGroup") : ~work[k].ok
    /\ WorkOf("sendMessage(analysis)") # {}
    /\ \A k \in WorkOf("sendMessage(analysis)") : ~work[k].ok

\* Container c holds the text, the summary of the failure and all items in
\* their original order with positions 1..n.
Holds(c, text, imgs, error) ==
    /\ c.analysis = << text >>
    /\ c.errorLog = << errorLog(error) >>
    /\ Cardinality(DOMAIN c.images) = Len(imgs)
    /\ \A k \in DOMAIN imgs :
           \E f \in DOMAIN c.images : f[2] = k /\ c.images[f] = imgs[k]
    /\ Len(c.metadata) = 1
    /\ LET m == c.metadata[1]
       IN  /\ DOMAIN m = DOMAIN imgs
           /\ \A k \in DOMAIN imgs :
                  /\ m[k].index = k
                  /\ m[k].location = location(imgs[k])
                  /\ m[k].filename \in DOMAIN c.images
                  /\ c.images[m[k].filename] = imgs[k]

OneContainerWithReport ==
    /\ Cardinality(Created) = 1
    /\ \A c \in Created : Holds(disk[c], analysis, images, telegramError)
    /\ exitCode = 1

----------------------------------------------------------------------------
(* C24 - C25 *)

Exited == entry = "run" /\ rpc = "exited"

\* A fallback bundle written by this run exists on disk.
BundleOnDisk ==
    \E c \in Created : Holds(disk[c], analysis, images, telegramError)
                           /\ disk[c].readme # << >>

\* C24: whenever a run ends with exit code 1, a fallback bundle written by
\* that run exists on disk: exit code 1 is never produced when delivery was
\* skipped or when the fallback save itself failed.
C24_ExitOneHasBundle ==
    (Exited /\ exitCode = 1) =>
        /\ BundleOnDisk
        /\ WorkOf("sendWeatherReport") # {}
        /\ \A k \in WorkOf("saveFailedReport") : work[k].ok

\* The delivery stage was entered and has ended.
DeliveryEnded == WorkOf("sendWeatherReport") # {} /\ rpc \notin {"batches", "save"}

TextSent == \E k \in WorkOf("sendMessage(analysis)") : work[k].ok

TextFailed == \E k \in WorkOf("sendMessage(analysis)") : ~work[k].ok

\* C25: deliveryOk is true at the end of the delivery stage if and only if
\* the text send succeeded, whatever the batches did.  If the text send
\* fails for good, saveFailedReport is invoked with the transformation text,
\* the full item list and that failure, and deliveryOk is false; if every
\* batch fails but the text send succeeds, deliveryOk is true and no
\* fallback bundle is written.
C25_DeliveryOkIsTextSent ==
    DeliveryEnded =>
        /\ deliveryOk <=> TextSent
        /\ TextFailed =>
               /\ ~deliveryOk
               /\ Cardinality(WorkOf("saveFailedReport")) = 1
               /\ \A k \in WorkOf("saveFailedReport") :
                      /\ work[k].analysis = analysis
                      /\ work[k].images = capturedImages
                      /\ \E j \in WorkOf("sendMessage(analysis)") :
                             j < k /\ work[k].error = work[j].error
        /\ TextSent =>
               /\ WorkOf("saveFailedReport") = {}
               /\ Created = {}

\* Both batches of eleven items failed, the text was sent.
C25_Witness ==
    /\ DeliveryEnded
    /\ Cardinality(WorkOf("sendMediaGroup")) = 2
    /\ \A k \in WorkOf("sendMediaGroup") : ~work[k].ok
    /\ TextSent
    /\ deliveryOk

----------------------------------------------------------------------------
(* C26 *)

\* The media groups sent so far are those of batches 1..batchIndex, once
\* each, in order, each with the items of its batch.
BatchesInOrder ==
    /\ Cardinality(WorkOf("sendMediaGroup")) = batchIndex
    /\ \A k \in WorkOf("sendMediaGroup") :
           /\ work[k].batch \in 1..batchIndex
           /\ work[k].items = batches[work[k].batch]
           /\ \A j \in WorkOf("sendMediaGroup") :
                  j < k => work[j].batch < work[k].batch

\* Each failed media group is followed at once by the loss notification of
\* its batch, and no other loss notification is sent.
OneLossNoticePerFailure ==
    /\ \A k \in WorkOf("sendMediaGroup") :
           ~work[k].ok => /\ k + 1 \in WorkOf("sendMessage(loss)")
                          /\ work[k + 1].batch = work[k].batch
    /\ \A k \in WorkOf("sendMessage(loss)") :
           /\ k - 1 \in WorkOf("sendMediaGroup")
           /\ ~work[k - 1].ok

\* The text send comes once, after the media group of every batch.
TextAfterEveryBatch ==
    /\ Cardinality(WorkOf("sendMessage(analysis)")) <= 1
    /\ \A k \in WorkOf("sendMessage(analysis)") :
           /\ batchIndex = Len(batches)
           /\ \A j \in WorkOf("sendMediaGroup") \cup WorkOf("sendMessage(loss)") : j < k

----------------------------------------------------------------------------
(* C27 *)

\* sendWeatherReport has thrown: the text send failed for good, or the
\* service could not be constructed.
DeliveryFailed ==
    /\ WorkOf("sendWeatherReport") # {}
    /\ \/ TextFailed
       \/ ~configured

\* C27: within one pipeline run saveFailedReport is invoked at most once,
\* and only after the delivery stage has ended in irrecoverable failure; it
\* is never invoked in a run whose delivery succeeded or was not attempted.
C27_SaveOnceAfterFailedDelivery ==
    /\ Cardinality(WorkOf("saveFailedReport")) <= 1
    /\ \A k \in WorkOf("saveFailedReport") :
           /\ DeliveryFailed
           /\ ~deliveryOk
           /\ \E j \in WorkOf("sendWeatherReport") : j < k
           /\ \A j \in WorkOf("sendMessage(analysis)") : j < k /\ ~work[j].ok
    /\ (deliveryOk \/ WorkOf("sendWeatherReport") = {}) =>
           /\ WorkOf("saveFailedReport") = {}
           /\ Created = {}
    /\ (rpc = "save") => DeliveryFailed /\ WorkOf("saveFailedReport") = {}

\* The run has exited after its one save, which followed a failed text send.
C27_Witness ==
    /\ Exited
    /\ Cardinality(WorkOf("saveFailedReport")) = 1
    /\ TextFailed
    /\ Created # {}

----------------------------------------------------------------------------
(* C28 *)

\* C28: in every run that ends in total failure (exit code 2) or partial
\* failure (exit code 1), a notification describing the triggering error was
\* attempted on the destination channel before the process exited.
C28_FailureIsNotified ==
    (Exited /\ exitCode \in {1, 2}) => WorkOf("sendError") # {}

----------------------------------------------------------------------------
(* C29 *)

Notifying == entry = "run" /\ rpc = "notifying"

\* The notification of a configured service has returned to run.
NotificationEnded ==
    \E k \in WorkOf("sendError") : configured /\ rpc \in {"exit", "exited"}

\* C29: the failure notification never changes the run's result: sendError
\* runs under the non-throwing retry form with at most maxRetries = 2
\* retries and never raises, and the exit code of the run is the same
\* whether the notification succeeds, is exhausted or is aborted.
C29_NotificationNeverChangesResult ==
    /\ Notifying =>
           /\ form = "withRetrySafe"
           /\ finalConfig.maxRetries = 2
           /\ Calls <= 2 + 1
           /\ outcome # "raised"
           /\ exitCode = determineExitCode(status)
    /\ \A k \in WorkOf("sendError") :
           /\ configured => work[k].ok
           /\ rpc \in {"exit", "exited"}
           /\ exitCode = determineExitCode(status)
           /\ exitCode = 2
    /\ Cardinality(WorkOf("sendError")) <= 1

\* The notification was given up after three calls and the run has exited
\* with the exit code computed before it.
C29_Witness ==
    /\ Exited
    /\ configured
    /\ \E k \in WorkOf("sendError") : work[k].ok /\ ~work[k].delivered
    /\ Calls = 3
    /\ exitCode = 2

----------------------------------------------------------------------------
(* Fallback storage on its own: the storage functions called several times *)
(* in one process, the clock advancing or not between the calls.           *)

MaxSaves == 2

\* const FAILED_REPORTS_DIR = 'data/failed_reports'.  A path is the sequence
\* of its components.
FAILED_REPORTS_DIR == << "data", "failed_reports" >>

\* path.join
join(a, b) == a \o b

\* fs.existsSync of a path that names a directory of data/failed_reports.
existsSync(d, p) ==
    /\ Len(p) = Len(FAILED_REPORTS_DIR) + 1
    /\ SubSeq(p, 1, Len(FAILED_REPORTS_DIR)) = FAILED_REPORTS_DIR
    /\ p[Len(p)] \in DOMAIN d

\* What saveFailedReport returns: reportDir, the path of the container.
reportDir(name) == join(FAILED_REPORTS_DIR, << name >>)

\* The order of two directory names as strings: toISOString has a fixed
\* width, so the names compare as their seconds, then their milliseconds.
Before(a, b) == a[1] < b[1] \/ (a[1] = b[1] /\ a[2] < b[2])

\* Array.prototype.sort on a set of distinct names.
RECURSIVE sort(_)
sort(S) ==
    IF S = {}
    THEN << >>
    ELSE LET first == CHOOSE a \in S : \A b \in S \ {a} : Before(a, b)
         IN  << first >> \o sort(S \ {first})

\* Array.prototype.reverse
reverse(s) == [ k \in 1..Len(s) |-> s[Len(s) + 1 - k] ]

\* Mutant: the names are listed without .reverse().
listFailedReports_oldestFirst(d) == sort(DOMAIN d)

\* listFailedReports: the directories of data/failed_reports, sorted by
\* name, most recent first.
listFailedReports(d) == reverse(sort(DOMAIN d))

\* loadFailedReport(timestamp): << >> is null, << r >> the record returned.
loadFailedReport(d, id) ==
    LET dir == join(FAILED_REPORTS_DIR, id)
    IN  IF ~existsSync(d, dir)
        THEN << >>
        ELSE LET c == d[dir[Len(dir)]]
             IN  IF c.analysis = << >> \/ c.errorLog = << >>
                 THEN << >>
                 ELSE << [ analysis   |-> c.analysis[1],
                           error      |-> c.errorLog[1],
                           imageCount |-> Cardinality(DOMAIN c.images),
                           reportDir  |-> dir ] >>

\* fs.rmSync(reportDir, { recursive: true, force: true })
rmSync(d, name) == [ n \in DOMAIN d \ {name} |-> d[n] ]

\* deleteFailedReport(timestamp): what it returns and the disk it leaves.
deleteFailedReport(d, id) ==
    LET dir == join(FAILED_REPORTS_DIR, id)
    IN  IF ~existsSync(d, dir)
        THEN [ value |-> FALSE, disk |-> d ]
        ELSE [ value |-> TRUE, disk |-> rmSync(d, dir[Len(dir)]) ]

\* The report the n-th call of the process is about: a text and its images,
\* different from those of the call before.
StoreReport(n) ==
    IF n % 2 = 1
    THEN [ text |-> "report", images |-> Captured(2) ]
    ELSE [ text |-> "fallback", images |-> Captured(1) ]

StoreErrors == {"ETELEGRAM: 429 Too Many Requests"}

\* The identifiers load and delete are called with: the directory names of
\* the earlier process's report and of a report saved at the first clock
\* reading, and the path saveFailedReport returns for the latter.
StoreIds ==
    { << timestamp(0) >>, << timestamp(1) >>, reportDir(timestamp(1)) }

\* The process starts after an earlier one has left a report.
InitStore ==
    /\ CaptureIdle
    /\ RetryIdle
    /\ BatchIdle
    /\ RunIdle
    /\ disk = OldContainer
    /\ clock = 1
    /\ reply = [ call |-> None, value |-> << >> ]

\* Time passes between two calls: Date reads one millisecond later.
StoreTick ==
    /\ clock < MaxClock
    /\ clock' = clock + 1
    /\ UNCHANGED << disk, reply, retryVars, batchVars, runVars, captureVars >>

\* saveFailedReport(text, imgs, error), of which k file-system operations
\* succeed; the clock is read by createReportDirectory and again by
\* saveImages.  It returns reportDir, or throws what the file system threw.
StoreSave ==
    /\ Len(work) < MaxSaves
    /\ \E r \in {StoreReport(Len(work) + 1)}, error \in StoreErrors,
          k \in 0..SaveStages, tImages \in LaterReadings(clock) :
          /\ k < 4 => tImages = clock
          /\ disk' = saveFailedReport(disk, clock, tImages, r.text, r.images, error, k)
          /\ clock' = tImages
          /\ work' = Append(work,
                 [ call |-> "saveFailedReport", ok |-> k = SaveStages, stages |-> k,
                   analysis |-> r.text, images |-> r.images, error |-> error,
                   dir |-> reportDirName(clock) ])
          /\ reply' = [ call  |-> "saveFailedReport",
                        value |-> IF k = SaveStages
                                  THEN reportDir(reportDirName(clock))
                                  ELSE << >> ]
    /\ UNCHANGED << entry, rpc, status, analysis, images, captureError,
                    capturedImages, telegramError, exitCode, configured,
                    batchIndex, retryVars, batchVars, captureVars >>

\* deleteFailedReport(id)
StoreDelete ==
    /\ Len(work) < MaxSaves
    /\ \E id \in StoreIds :
          /\ disk' = deleteFailedReport(disk, id).disk
          /\ work' = Append(work,
                 [ call |-> "deleteFailedReport",
                   ok |-> deleteFailedReport(disk, id).value, id |-> id ])
          /\ reply' = [ call  |-> "deleteFailedReport",
                        value |-> << deleteFailedReport(disk, id).value >> ]
    /\ UNCHANGED << clock, entry, rpc, status, analysis, images, captureError,
                    capturedImages, telegramError, exitCode, configured,
                    batchIndex, retryVars, batchVars, captureVars >>

\* loadFailedReport(id)
StoreLoad ==
    /\ \E id \in StoreIds :
          reply' = [ call |-> "loadFailedReport", id |-> id,
                     value |-> loadFailedReport(disk, id) ]
    /\ UNCHANGED << disk, clock, retryVars, batchVars, runVars, captureVars >>

\* listFailedReports()
StoreList ==
    /\ reply' = [ call |-> "listFailedReports", value |-> listFailedReports(disk) ]
    /\ UNCHANGED << disk, clock, retryVars, batchVars, runVars, captureVars >>

NextStore == StoreTick \/ StoreSave \/ StoreDelete \/ StoreLoad \/ StoreList

SpecStore == InitStore /\ [][NextStore]_vars

----------------------------------------------------------------------------
(* C30 *)

\* This step is a call of saveFailedReport.
SaveStep ==
    /\ Len(work') = Len(work) + 1
    /\ work'[Len(work')].call = "saveFailedReport"

\* C30: every call of saveFailedReport creates a container distinct from
\* every existing one and never overwrites a file of an existing container,
\* also when two calls happen in the same process at the same clock reading.
C30_DistinctContainerPerCall ==
    [][ SaveStep =>
            /\ \A c \in DOMAIN disk : disk'[c] = disk[c]
            /\ work'[Len(work')].ok =>
                   /\ work'[Len(work')].dir \notin DOMAIN disk
                   /\ work'[Len(work')].dir \in DOMAIN disk' ]_vars

----------------------------------------------------------------------------
(* C31 *)

\* The directory name an identifier ends with.
NameOf(id) == id[Len(id)]

\* A save of the container named by id has returned, in this process or in
\* the earlier one, and no delete of it has returned true since.
Stored(id) ==
    \/ /\ NameOf(id) \in DOMAIN OldContainer
       /\ \A j \in WorkOf("deleteFailedReport") :
              work[j].ok => NameOf(work[j].id) # NameOf(id)
    \/ \E k \in WorkOf("saveFailedReport") :
        /\ work[k].ok
        /\ work[k].dir = NameOf(id)
        /\ \A j \in WorkOf("deleteFailedReport") :
               (j > k /\ work[j].ok) => NameOf(work[j].id) # NameOf(id)

\* saveFailedReport has just returned the container reply.value.
JustSaved == reply.call = "saveFailedReport" /\ reply.value # << >>

\* C31: save/load round trip: after saveFailedReport(text, items, error)
\* returns container c, loadFailedReport(c) returns that text, an error
\* summary containing the error's message, and an artifact count equal to
\* the number of items; loadFailedReport of an identifier that was never
\* saved or was deleted returns null.
C31_SaveLoadRoundTrip ==
    /\ JustSaved =>
           LET saved  == work[Len(work)]
               loaded == loadFailedReport(disk, reply.value)
           IN  /\ loaded # << >>
               /\ loaded[1].analysis = saved.analysis
               /\ loaded[1].error.message = saved.error
               /\ loaded[1].imageCount = Len(saved.images)
    /\ \A id \in StoreIds :
           ~Stored(id) => loadFailedReport(disk, id) = << >>

----------------------------------------------------------------------------
(* C32 *)

\* The directory names for which a save that got as far as `stages`
\* file-system operations, in the history w or in the earlier process, was
\* not followed by a delete that returned true.
Remaining(w, stages) ==
    { n \in DOMAIN OldContainer :
        \A j \in DOMAIN w :
            (w[j].call = "deleteFailedReport" /\ w[j].ok) => NameOf(w[j].id) # n }
    \cup
    { w[k].dir : k \in
        { k \in DOMAIN w :
            /\ w[k].call = "saveFailedReport"
            /\ w[k].stages >= stages
            /\ \A j \in DOMAIN w :
                   (j > k /\ w[j].call = "deleteFailedReport" /\ w[j].ok)
                       => NameOf(w[j].id) # w[k].dir } }

\* The list holds exactly the names of S, the most recent first.
ListsMostRecentFirst(list, S) ==
    /\ { list[m] : m \in DOMAIN list } = S
    /\ \A m, n \in DOMAIN list : m < n => Before(list[n], list[m])

\* This step is a call of deleteFailedReport.
DeleteStep ==
    /\ Len(work') = Len(work) + 1
    /\ work'[Len(work')].call = "deleteFailedReport"

\* What the claim says of a call of deleteFailedReport.
DeletesOnlyNamed ==
    DeleteStep =>
        LET id == work'[Len(work')].id
        IN  IF existsSync(disk, join(FAILED_REPORTS_DIR, id))
            THEN /\ work'[Len(work')].ok
                 /\ reply'.value = << TRUE >>
                 /\ DOMAIN disk' = DOMAIN disk \ {NameOf(id)}
                 /\ \A n \in DOMAIN disk' : disk'[n] = disk[n]
            ELSE /\ ~work'[Len(work')].ok
                 /\ reply'.value = << FALSE >>
                 /\ disk' = disk

----------------------------------------------------------------------------
(* C33 *)

\* C33: no step of a pipeline run (acquisition, transformation, delivery,
\* fallback save, notification) deletes or modifies a fallback container
\* that already exists: the containers present before the run are unchanged
\* by it.
C33_RunKeepsExistingContainers ==
    [][ \A c \in DOMAIN disk :
            /\ c \in DOMAIN disk'
            /\ disk'[c] = disk[c] ]_vars

\* The run has saved its report next to the earlier one and has exited.
C33_Witness ==
    /\ Exited
    /\ DOMAIN OldContainer \subseteq DOMAIN disk
    /\ \A c \in DOMAIN OldContainer : disk[c] = OldContainer[c]
    /\ \E k \in WorkOf("saveFailedReport") : work[k].ok
    /\ Created # {}

----------------------------------------------------------------------------
(* C34 *)

\* logRetryAttempt has appended its line: appendLog did not throw.
Appended(o) == ~o.threw

\* data/logs/retry.log: one line per call of logRetryAttempt that returned,
\* with the attempt number and the delay it was given.
retryLog == SelectSeq(observed, Appended)

\* The retries made so far: the operation calls after the first one.
Retries == IF Calls = 0 THEN 0 ELSE Calls - 1

\* C34: every retry attempt of every retry execution appends exactly one
\* line to the retry log, also in a withRetry call made without an onRetry
\* observer; the log only grows, its earlier entries are never removed or
\* rewritten, and the entries are in the order in which the retries happened.
C34_EveryRetryLogged ==
    [][ /\ Len(retryLog') >= Len(retryLog)
        /\ SubSeq(retryLog', 1, Len(retryLog)) = retryLog
        /\ \A m, n \in DOMAIN retryLog' :
               m < n => retryLog'[m].calls < retryLog'[n].calls
        /\ pc' = "done" => Len(retryLog') = Retries' ]_vars

----------------------------------------------------------------------------
(* C35 *)

\* C35: the status is monotonic within a run: each of acquisitionOk,
\* transformationOk and deliveryOk starts false and, once set to true, is
\* never set back to false; and deliveryOk is true only if acquisitionOk and
\* transformationOk are true.
C35_StatusMonotonic ==
    [][ entry = "run" =>
            /\ rpc = "capture" => status = NoStatus
            /\ \A f \in DOMAIN status : status[f] => status'[f]
            /\ deliveryOk' => (acquisitionOk' /\ transformationOk') ]_vars

\* A run that has set the three flags one after the other and has exited.
C35_Witness ==
    /\ Exited
    /\ acquisitionOk /\ transformationOk /\ deliveryOk
    /\ exitCode = 0

----------------------------------------------------------------------------
(* C36 *)

\* Some work of the delivery stage was done.
DeliveryWork ==
    \/ Called("sendWeatherReport")
    \/ Called("sendMediaGroup")
    \/ Called("sendMessage(loss)")
    \/ Called("sendMessage(analysis)")
    \/ Called("saveFailedReport")

\* C36: the delivery stage is started only if both prior stages produced
\* usable output: no delivery batch, text send or fallback save is ever
\* performed in a run where acquisition failed or where there is no text or
\* no item to deliver.
C36_DeliveryNeedsOutput ==
    (entry = "run" /\ DeliveryWork) =>
        /\ acquisitionOk
        /\ captureError = None
        /\ analysis # None /\ analysis # ""
        /\ Len(images) > 0
        /\ Called("capture") /\ work[1].ok

\* The analysis came back empty: the run has exited without delivery work.
C36_Witness ==
    /\ Exited
    /\ acquisitionOk
    /\ analysis = ""
    /\ Len(images) > 0
    /\ ~DeliveryWork

----------------------------------------------------------------------------
(* C37 *)

\* C37: if every collaborator call eventually returns or fails, a pipeline
\* run always terminates by exiting exactly once with a code in {0, 1, 2}:
\* no failure of delivery, of the fallback save or of the notification
\* escapes the orchestrator as an unhandled error or prevents the exit.
C37_RunAlwaysExits ==
    (entry = "run") ~> [](Exited /\ exitCode \in {0, 1, 2})

\* The run has exited although the text send, the fallback save and the
\* service of the notification all failed on the way.
C37_Witness ==
    /\ Exited
    /\ exitCode = 1
    /\ TextFailed
    /\ \E k \in WorkOf("saveFailedReport") : ~work[k].ok

----------------------------------------------------------------------------
(* C38 *)

\* The items of each media group are the next run of the input.
GroupsFollowInput ==
    \A k \in WorkOf("sendMediaGroup") :
        LET b == work[k].batch
        IN  work[k].items =
                SubSeq(images, defaultMaxPerBatch * (b - 1) + 1,
                       Min(defaultMaxPerBatch * b, Len(images)))

\* The pause is taken exactly after a media group that was sent and has a
\* successor.
PauseOnlyBetweenSent ==
    /\ \A k \in WorkOf("sendMediaGroup") :
           (work[k].ok /\ work[k].batch < Len(batches))
               <=> (k + 1 \in WorkOf("pause") /\ work[k + 1].batch = work[k].batch)
    /\ \A k \in WorkOf("pause") : k - 1 \in WorkOf("sendMediaGroup")

----------------------------------------------------------------------------
(* Part 4: the capture loop of captureAndAnalyze, captureSingleCamera and   *)
(* captureSingleCameraWithTimeout                                           *)

\* Cameras the site shows, over all its pages, and cards per page.
MaxCameras == 3
PageSize == 2

Cameras == 1..MaxCameras

\* apiConfig (api.config.ts:10-11): targetCount and maxRetries with the
\* defaults of TARGET_COUNT and MAX_RETRIES.
apiConfig == [ targetCount |-> 3, maxRetries |-> 2 ]

\* What an attempt may throw: the error of line 44, and an error of the
\* browser automation for a locator that matches nothing.
CaptureFailures ==
    [ eBuffering |->
          [ name |-> <<"E","r","r","o","r">>,
            message |-> <<"V","i","d","e","o"," ","s","t","u","c","k"," ","b","u","f","f","e","r","i","n","g">> ],
      eNoElement |->
          [ name |-> <<"E","r","r","o","r">>,
            message |-> <<"E","l","e","m","e","n","t"," ","n","o","t"," ","f","o","u","n","d">> ] ]

PermanentCapture ==
    { e \in DOMAIN CaptureFailures : isPermanentError(CaptureFailures[e]) }

\* CaptureResult: { success: true, location, base64Image } or
\* { success: false, error }; the error is named by its key in
\* CaptureFailures, "aborted" is 'Aborted due to timeout' and "timeout" is
\* 'Capture timeout after ...'.
Success(c) == [ success |-> TRUE, location |-> c, error |-> None ]
Failure(e) == [ success |-> FALSE, location |-> 0, error |-> e ]

capturedCount == Len(capturedImages)

\* captureSingleCamera has not been called for the camera.
NotCalled == [ pc |-> "none", attempt |-> 0, result |-> << >> ]

\* captureSingleCamera returns r: Promise.race settles with it unless the
\* timer settled it before.
Returns(a, r) == [ pc |-> "returned", attempt |-> a, result |-> << r >> ]
settle(p, by, r) == IF p = << >> THEN << [ by |-> by, value |-> r ] >> ELSE p

\* The head of the for loop every iteration passes through: the loop keeps
\* the abort check and starts the attempt; the attempt is in progress until
\* its last await settles.
loopTop_ignoresSignal(a, aborted) ==
    [ pc |-> "running", attempt |-> a, result |-> << >> ]

\* The head of the for loop of captureSingleCamera: with the flag set it
\* returns, otherwise the attempt starts and is in progress until its last
\* await settles.
loopTop(a, aborted) ==
    IF aborted
    THEN Returns(a, Failure("aborted"))
    ELSE [ pc |-> "running", attempt |-> a, result |-> << >> ]

\* The history entry of an attempt that has just started.
Started(a) == [ attempt |-> a, outcome |-> "running", delayMs |-> 0 ]

\* const delayMs = 2000 * Math.pow(2, attempt - 1)
backoff(a) == 2000 * 2^(a - 1)

\* The cards of a page, counted over all pages.
LastCardOf(p) == Min(p * PageSize, MaxCameras)
hasNextPage(p) == p * PageSize < MaxCameras

\* The run vars other than capturedImages.
runRest ==
    << entry, rpc, status, analysis, images, captureError, telegramError,
       exitCode, configured, batchIndex, work >>

InitCapture ==
    /\ RetryIdle
    /\ BatchIdle
    /\ RunIdle
    /\ StoreIdle
    /\ cpc = "card"
    /\ currentPage = 1
    /\ card = 1
    /\ capture = [ c \in Cameras |-> NotCalled ]
    /\ abortSignal = [ c \in Cameras |-> FALSE ]
    /\ timer = [ c \in Cameras |-> "none" ]
    /\ race = [ c \in Cameras |-> << >> ]
    /\ tried = [ c \in Cameras |-> << >> ]

\* One iteration of `for (const card of cards)` up to the await of
\* captureSingleCameraWithTimeout: leave the loop with enough captures or no
\* card left, skip a camera that is offline, otherwise create the signal,
\* arm the timer and call captureSingleCamera, which runs up to the first
\* await of its first attempt.
CaptureCard ==
    /\ cpc = "card"
    /\ IF capturedCount >= apiConfig.targetCount \/ card > LastCardOf(currentPage)
       THEN /\ cpc' = "page"
            /\ UNCHANGED << card, capture, abortSignal, timer, race, tried >>
       ELSE \E isCameraOnline \in BOOLEAN :
                IF ~isCameraOnline
                THEN /\ card' = card + 1
                     /\ UNCHANGED << cpc, capture, abortSignal, timer, race, tried >>
                ELSE /\ abortSignal' = [ abortSignal EXCEPT ![card] = FALSE ]
                     /\ timer' = [ timer EXCEPT ![card] = "armed" ]
                     /\ capture' = [ capture EXCEPT ![card] = loopTop(1, FALSE) ]
                     /\ tried' = [ tried EXCEPT ![card] = << Started(1) >> ]
                     /\ cpc' = "awaiting"
                     /\ UNCHANGED << card, race >>
    /\ UNCHANGED << currentPage, capturedImages, runRest >>
    /\ UNCHANGED << retryVars, batchVars, storeVars >>

\* The attempt in progress for camera c ends: the frame is captured and
\* captureSingleCamera returns it, or an await throws and the catch block
\* returns, waits, or (with the flag set) goes on to the head of the loop.
CaptureAttemptEnds(c) ==
    /\ capture[c].pc = "running"
    /\ LET a == capture[c].attempt
           note(o, d) ==
               [ tried EXCEPT ![c][Len(tried[c])] =
                     [ attempt |-> a, outcome |-> o, delayMs |-> d ] ]
           return(o, r) ==
               /\ capture' = [ capture EXCEPT ![c] = Returns(a, r) ]
               /\ race' = [ race EXCEPT ![c] = settle(race[c], "capture", r) ]
               /\ tried' = note(o, 0)
       IN  \E o \in {"ok"} \cup DOMAIN CaptureFailures :
               IF o = "ok" THEN return(o, Success(c))
               ELSE IF o \in PermanentCapture THEN return(o, Failure(o))
               ELSE IF a > apiConfig.maxRetries THEN return(o, Failure(o))
               ELSE IF ~abortSignal[c]
               THEN /\ capture' = [ capture EXCEPT ![c].pc = "waiting" ]
                    /\ tried' = note(o, backoff(a))
                    /\ UNCHANGED race
               ELSE LET next == loopTop(a + 1, abortSignal[c])
                    IN  /\ capture' = [ capture EXCEPT ![c] = next ]
                        /\ race' = [ race EXCEPT ![c] =
                                        IF next.pc = "returned"
                                        THEN settle(race[c], "capture", next.result[1])
                                        ELSE race[c] ]
                        /\ tried' = IF next.pc = "running"
                                    THEN [ note(o, 0) EXCEPT ![c] = Append(@, Started(a + 1)) ]
                                    ELSE note(o, 0)
    /\ UNCHANGED << cpc, currentPage, card, abortSignal, timer >>
    /\ UNCHANGED << capturedImages, runRest >>
    /\ UNCHANGED << retryVars, batchVars, storeVars >>

\* page.waitForTimeout(delayMs) of camera c is over: the next iteration
\* starts at the head of the loop.
CaptureWaitEnds(c) ==
    /\ capture[c].pc = "waiting"
    /\ LET next == loopTop(capture[c].attempt + 1, abortSignal[c])
       IN  /\ capture' = [ capture EXCEPT ![c] = next ]
           /\ race' = [ race EXCEPT ![c] =
                           IF next.pc = "returned"
                           THEN settle(race[c], "capture", next.result[1])
                           ELSE race[c] ]
           /\ tried' = IF next.pc = "running"
                       THEN [ tried EXCEPT ![c] = Append(@, Started(next.attempt)) ]
                       ELSE tried
    /\ UNCHANGED << cpc, currentPage, card, abortSignal, timer >>
    /\ UNCHANGED << capturedImages, runRest >>
    /\ UNCHANGED << retryVars, batchVars, storeVars >>

\* The timer of camera c fires: the flag is set and the timeout promise
\* resolves, which settles the race.  Nothing clears the timer, but once
\* captureSingleCamera has returned nothing reads the flag or the promise
\* any more, so only the firing before that return is a step.
CaptureTimeout(c) ==
    /\ timer[c] = "armed"
    /\ capture[c].pc # "returned"
    /\ timer' = [ timer EXCEPT ![c] = "fired" ]
    /\ abortSignal' = [ abortSignal EXCEPT ![c] = TRUE ]
    /\ race' = [ race EXCEPT ![c] = settle(race[c], "timeout", Failure("timeout")) ]
    /\ UNCHANGED << cpc, currentPage, card, capture, tried >>
    /\ UNCHANGED << capturedImages, runRest >>
    /\ UNCHANGED << retryVars, batchVars, storeVars >>

\* The race of the camera the loop waits for has settled: a successful
\* result is pushed, and the loop goes to the next card.
CaptureResume ==
    /\ cpc = "awaiting"
    /\ race[card] # << >>
    /\ LET result == race[card][1].value
       IN  capturedImages' =
               IF result.success /\ result.location # 0
               THEN Append(capturedImages, result.location)
               ELSE capturedImages
    /\ card' = card + 1
    /\ cpc' = "card"
    /\ UNCHANGED << currentPage, capture, abortSignal, timer, race, tried >>
    /\ UNCHANGED runRest
    /\ UNCHANGED << retryVars, batchVars, storeVars >>

\* After the cards of a page: with too few captures and a next page that
\* loads, the loop goes on there; otherwise it ends.
CapturePage ==
    /\ cpc = "page"
    /\ IF capturedCount < apiConfig.targetCount /\ hasNextPage(currentPage)
       THEN \E success \in BOOLEAN :
                IF success
                THEN currentPage' = currentPage + 1 /\ cpc' = "card"
                ELSE cpc' = "done" /\ UNCHANGED currentPage
       ELSE cpc' = "done" /\ UNCHANGED currentPage
    /\ UNCHANGED << card, capture, abortSignal, timer, race, tried >>
    /\ UNCHANGED << capturedImages, runRest >>
    /\ UNCHANGED << retryVars, batchVars, storeVars >>

NextCapture ==
    \/ CaptureCard
    \/ \E c \in Cameras : CaptureAttemptEnds(c)
    \/ \E c \in Cameras : CaptureWaitEnds(c)
    \/ \E c \in Cameras : CaptureTimeout(c)
    \/ CaptureResume
    \/ CapturePage

SpecCapture == InitCapture /\ [][NextCapture]_vars

----------------------------------------------------------------------------
(* C39 *)

InImages(c) == \E k \in DOMAIN capturedImages : capturedImages[k] = c

\* The attempts of a camera are numbered from 1 and are at most
\* maxRetries + 1; a permanent error is the last entry and has no wait;
\* every further attempt comes after a wait of 2000 * 2^(attempt-1) ms, and
\* only errors that are not permanent are followed by that wait.
AttemptsOf(t) ==
    /\ Len(t) <= apiConfig.maxRetries + 1
    /\ \A i \in DOMAIN t :
           /\ t[i].attempt = i
           /\ t[i].outcome \in PermanentCapture => i = Len(t) /\ t[i].delayMs = 0
           /\ i < Len(t) => t[i].delayMs = 2000 * 2^(i - 1)
           /\ t[i].delayMs # 0 =>
                  /\ t[i].delayMs = 2000 * 2^(i - 1)
                  /\ t[i].outcome \in DOMAIN CaptureFailures \ PermanentCapture

\* The last attempt of camera c ended with a permanent error.
StoppedByPermanent(c) ==
    /\ tried[c] # << >>
    /\ tried[c][Len(tried[c])].outcome \in PermanentCapture

\* C39: captureSingleCamera makes at most apiConfig.maxRetries + 1 attempts
\* for one camera, stops at once on a permanent error, and otherwise waits
\* 2000 * 2^(attempt-1) ms before the next attempt; once the timer of
\* captureSingleCameraWithTimeout has fired no new attempt for that camera
\* starts, and a late success of the attempt in flight is never added to
\* the captured images.
C39_AttemptsBoundedAndAbortable ==
    [][ \A c \in Cameras :
            /\ tried'[c] # tried[c] => AttemptsOf(tried'[c])
            /\ StoppedByPermanent(c)' => capture'[c].pc = "returned"
            /\ abortSignal[c] => Len(tried'[c]) = Len(tried[c])
            /\ abortSignal'[c] => ~InImages(c)'
      ]_vars

\* One camera used all three attempts with the waits of 2s and 4s, one was
\* stopped by its timer during a wait and made no further attempt, and one
\* succeeded after its timer had fired and is not among the images.
C39_Witness ==
    /\ cpc = "done"
    /\ \E c1, c2, c3 \in Cameras :
           /\ Len(tried[c1]) = apiConfig.maxRetries + 1
           /\ tried[c1][1].delayMs = 2000 /\ tried[c1][2].delayMs = 4000
           /\ capture[c1].result = << Failure("eBuffering") >>
           /\ abortSignal[c2] /\ Len(tried[c2]) = 1
           /\ tried[c2][1].delayMs = 2000
           /\ capture[c2].result = << Failure("aborted") >>
           /\ abortSignal[c3] /\ capture[c3].result = << Success(c3) >>
           /\ ~InImages(c3)

----------------------------------------------------------------------------
(* C40 *)

InProgress == { c \in Cameras : capture[c].pc = "running" }

\* C40: at most one camera capture attempt is in progress at any time: the
\* capture of the next camera never starts while an attempt for a previous
\* camera, one whose timer has fired included, is still running on the page.
C40_OneAttemptAtATime == Cardinality(InProgress) <= 1

====
